---- MODULE Spec2Model ----
(***************************************************************************)
(* Change-classification engine of the IFC model comparison tool.          *)
(*                                                                         *)
(* Two immutable snapshots (model1 = revision A, model2 = revision B) map  *)
(* GlobalIds to entities.  Every operation of the engine is a function of  *)
(* the two snapshots and of its arguments; an action of this module is one *)
(* call of one operation, and the variable `call` records the operation,   *)
(* its arguments and what it returned (or that it raised).                 *)
(*                                                                         *)
(* Numbers are fixed-point integers, one unit = 1e-5 length unit, so that  *)
(* rounding to 3 and 4 decimals and the tolerances 1e-2 and 1e-4 are exact.*)
(* A GlobalId is modelled by its rank in string order (Python sorts        *)
(* strings by code point), so that `<` on ranks is `<` on the strings.     *)
(***************************************************************************)
EXTENDS Integers, Sequences, FiniteSets, TLC

VARIABLES model1, model2, call

vars == <<model1, model2, call>>

\* Number of distinct GlobalIds that may occur in the two snapshots.
NumGuids == 2

GUIDS == 1..NumGuids

(***************************************************************************)
(* Generic helpers: Python lists, sets turned into lists, sorting.         *)
(***************************************************************************)
Range(s) == {s[i] : i \in DOMAIN s}

\* list(a_set): Python fixes no iteration order for a set of strings, so any
\* duplicate-free enumeration of the set is a possible result.
ListsOf(S) == {s \in [1..Cardinality(S) -> S] : Range(s) = S}

RECURSIVE InsertSorted(_, _)
InsertSorted(s, x) ==
    IF s = <<>> THEN <<x>>
    ELSE IF x <= Head(s) THEN <<x>> \o s
    ELSE <<Head(s)>> \o InsertSorted(Tail(s), x)

\* list.sort(): ascending order, duplicates kept.
RECURSIVE SortList(_)
SortList(s) == IF s = <<>> THEN <<>> ELSE InsertSorted(SortList(Tail(s)), Head(s))

\* The outcome of a call: a value, or an exception that reached the caller.
Ok(v) == [ok |-> TRUE, val |-> v]
Raise == [ok |-> FALSE]

\* Python any() of a list of booleans.
PyAny(s) == \E i \in DOMAIN s : s[i]

\* np.round(x, d): round half to even, to a multiple of `step` units.
RoundTo(x, step) ==
    LET q == x \div step
        r == x % step
    IN  IF 2 * r < step THEN q * step
        ELSE IF 2 * r > step THEN (q + 1) * step
        ELSE IF q % 2 = 0 THEN q * step ELSE (q + 1) * step

\* Tagged scalar values of node attributes.
Str(s) == [str |-> s]
Num(n) == [num |-> n]

(***************************************************************************)
(* The schema: declared types and the is_a relation (a type is_a itself    *)
(* and each of its supertypes).                                            *)
(***************************************************************************)
Supertypes(t) ==
    CASE t = "IfcWallStandardCase" -> {"IfcWallStandardCase", "IfcWall", "IfcBuildingElement"}
      [] t = "IfcWall" -> {"IfcWall", "IfcBuildingElement"}
      [] t = "IfcDoor" -> {"IfcDoor", "IfcBuildingElement"}
      [] t = "IfcBuildingElementProxy" -> {"IfcBuildingElementProxy", "IfcBuildingElement"}
      [] OTHER -> {t}

\* entity.is_a(T)
is_a(entity, T) == T \in Supertypes(entity.IfcType)

\* The type filters the operations are called with.
TypeFilters == {"IfcBuildingElement", "IfcWall", "IfcWallStandardCase", "IfcDoor"}

(***************************************************************************)
(* Meshes, as the geometry kernel and trimesh give them.  A mesh carries   *)
(* the derived queries the engine reads: bounds, centroid, extents, volume,*)
(* area, watertightness, and what the two surface samplers return for it.  *)
(***************************************************************************)
MeshOf(minc, maxc, vol, area, grid, even) ==
    [bounds |-> <<minc, maxc>>,
     centroid |-> <<(minc[1] + maxc[1]) \div 2, (minc[2] + maxc[2]) \div 2,
                    (minc[3] + maxc[3]) \div 2>>,
     extents |-> <<maxc[1] - minc[1], maxc[2] - minc[2], maxc[3] - minc[3]>>,
     obb_extents |-> <<maxc[1] - minc[1], maxc[2] - minc[2], maxc[3] - minc[3]>>,
     volume |-> vol, area |-> area, is_watertight |-> area > 0,
     grid_points |-> grid, even_points |-> even]

\* A box, volume 10.0.
MeshBox ==
    MeshOf(<<0, 0, 0>>, <<2000, 1000, 3000>>, 1000000, 2200000,
           <<<<0, 0, 0>>, <<2000, 0, 0>>, <<2000, 1000, 3000>>>>,
           <<<<0, 0, 0>>, <<2000, 1000, 0>>>>)

\* The box regenerated with noise below the rounding of the descriptor.
MeshBoxNoise ==
    MeshOf(<<2, 0, 0>>, <<2002, 1000, 3000>>, 1000004, 2200003,
           <<<<2, 0, 0>>, <<2002, 0, 0>>, <<2002, 1000, 3000>>>>,
           <<<<2, 0, 0>>, <<2002, 1000, 0>>>>)

\* The box translated by exactly the shape tolerance along x.
MeshBoxShifted ==
    MeshOf(<<1000, 0, 0>>, <<3000, 1000, 3000>>, 1000000, 2200000,
           <<<<1000, 0, 0>>, <<3000, 0, 0>>, <<3000, 1000, 3000>>>>,
           <<<<1000, 0, 0>>, <<3000, 1000, 0>>>>)

\* A larger box: volume 12.5, one corner moved by more than the shape tolerance.
MeshBoxGrown ==
    MeshOf(<<0, 0, 0>>, <<3500, 1000, 3000>>, 1250000, 2500000,
           <<<<0, 0, 0>>, <<2000, 0, 0>>, <<2000, 1000, 3000>>, <<3500, 1000, 3000>>>>,
           <<<<0, 0, 0>>, <<2000, 1000, 0>>, <<3500, 1000, 0>>>>)

\* A degenerate mesh: vertices but no surface area, which no sampler can sample.
MeshFlat ==
    MeshOf(<<0, 0, 0>>, <<2000, 0, 0>>, 0, 0, <<>>, <<>>)

\* The degenerate mesh one length unit further along x, and 11 units (1.1e-4)
\* longer: the two corners moved by vectors that differ by more than 1e-4.
MeshFlatFar ==
    MeshOf(<<100000, 0, 0>>, <<102011, 0, 0>>, 0, 0, <<>>, <<>>)

Meshes == {MeshBox, MeshBoxNoise, MeshBoxShifted, MeshBoxGrown, MeshFlat, MeshFlatFar}

(***************************************************************************)
(* Entities.  Representation is absent, or one the kernel raises on, or    *)
(* one the kernel triangulates into a mesh.  IsDefinedBy is the sequence   *)
(* of property definitions, in the order the snapshot enumerates them.     *)
(***************************************************************************)
NoEntity == [absent |-> TRUE]

Pset(id, name, props) == [kind |-> "IfcPropertySet", GlobalId |-> id, Name |-> name, items |-> props]
Qset(id, name, qtys) == [kind |-> "IfcElementQuantity", GlobalId |-> id, Name |-> name, items |-> qtys]
Prop(name, value) == [Name |-> name, NominalValue |-> value]
Qty(qkind, name, value) == [kind |-> qkind, Name |-> name, value |-> value]
None == [none |-> TRUE]
NoRepresentation == [present |-> FALSE]
BrokenRepresentation == [present |-> TRUE, converts |-> FALSE]
Shape(mesh) == [present |-> TRUE, converts |-> TRUE, mesh |-> mesh]

Entity(type, name, container, defs, children, parents, rep) ==
    [IfcType |-> type, Name |-> name, Container |-> container, IsDefinedBy |-> defs,
     IsDecomposedBy |-> children, Decomposes |-> parents, Representation |-> rep]

PsetFireA == Pset(101, "Pset_WallCommon", <<Prop("FireRating", Str("A")), Prop("Reference", None)>>)
PsetFireB == Pset(101, "Pset_WallCommon", <<Prop("FireRating", Str("B")), Prop("Reference", None)>>)
PsetFireRelabelled == Pset(102, "Pset_WallCommon", <<Prop("FireRating", Str("A"))>>)
QsetBase == Qset(103, "BaseQuantities", <<Qty("IfcQuantityLength", "Width", 123454),
                                          Qty("IfcQuantityVolume", "NetVolume", 1000000)>>)
QsetNoise == Qset(103, "BaseQuantities", <<Qty("IfcQuantityLength", "Width", 123452),
                                           Qty("IfcQuantityVolume", "NetVolume", 1000000)>>)
ChildPart == [GlobalId |-> 104, Name |-> "", IfcType |-> "IfcBuildingElementPart"]
ParentAssembly == [GlobalId |-> 105, Name |-> "Assembly", IfcType |-> "IfcElementAssembly"]

Wall == Entity("IfcWall", "Wall-1", "Level 1", <<PsetFireA, QsetBase>>, <<>>, <<>>, Shape(MeshBox))
WallFireB == Entity("IfcWall", "Wall-1", "Level 1", <<PsetFireB, QsetBase>>, <<>>, <<>>, Shape(MeshBox))
WallNoise == Entity("IfcWall", "Wall-1", "Level 1", <<QsetNoise, PsetFireA>>, <<>>, <<>>, Shape(MeshBoxNoise))
WallGrown == Entity("IfcWall", "Wall-1", "Level 1", <<PsetFireA, QsetBase>>, <<>>, <<>>, Shape(MeshBoxGrown))
WallShifted == Entity("IfcWall", "Wall-1", "Level 1", <<PsetFireA, QsetBase>>, <<>>, <<>>, Shape(MeshBoxShifted))
WallRelabelled ==
    Entity("IfcWall", "Wall-1", "Level 1", <<PsetFireRelabelled, QsetBase>>, <<ChildPart>>, <<>>, Shape(MeshBox))
WallFlat == Entity("IfcWallStandardCase", "", "", <<>>, <<>>, <<ParentAssembly>>, Shape(MeshFlat))
WallFlatFar == Entity("IfcWallStandardCase", "", "", <<>>, <<>>, <<ParentAssembly>>, Shape(MeshFlatFar))
WallBroken == Entity("IfcWall", "Wall-1", "Level 1", <<PsetFireA, QsetBase>>, <<>>, <<>>, BrokenRepresentation)
Door == Entity("IfcDoor", "Door-1", "LEVEL 2 ", <<PsetFireA>>, <<>>, <<>>, NoRepresentation)
Proxy == Entity("IfcBuildingElementProxy", "Proxy-1", "Room 1", <<PsetFireA>>, <<>>, <<>>, Shape(MeshBox))
ProxyChanged == Entity("IfcBuildingElementProxy", "Proxy-1", "Site", <<PsetFireB>>, <<>>, <<>>, Shape(MeshBoxGrown))

\* What one GlobalId may be in revision A and in revision B.
Revisions ==
    { <<NoEntity, NoEntity>>, <<Wall, NoEntity>>, <<NoEntity, Wall>>,
      <<Wall, Wall>>, <<Wall, WallFireB>>, <<Wall, WallNoise>>, <<Wall, WallGrown>>,
      <<Wall, WallShifted>>, <<Wall, WallRelabelled>>, <<WallFlat, WallFlat>>,
      <<WallFlat, Wall>>, <<Wall, WallBroken>>, <<Wall, Door>>, <<Door, Door>>,
      <<Proxy, ProxyChanged>>, <<WallFlat, WallFlatFar>> }

(***************************************************************************)
(* The snapshot collaborator.                                              *)
(***************************************************************************)
\* model.by_guid(guid), for an id the snapshot can look up.
by_guid(model, guid) == IF guid \in DOMAIN model THEN model[guid] ELSE NoEntity

exists(model, guid) == by_guid(model, guid) # NoEntity

\* {elem.GlobalId for elem in model.by_type(ifc_type)}: by_type returns the
\* entities of the type and of its subtypes.
guids_of_type(model, ifc_type) ==
    {g \in DOMAIN model : exists(model, g) /\ is_a(model[g], ifc_type)}

\* A string that has the form of a GlobalId, held by a snapshot or not.
WellFormed(guid) == guid \in 1..(NumGuids + 1)

\* model.by_guid(guid) as a call, for any id: the entity when the snapshot
\* holds the id; for an id it does not hold the collaborator returns None or
\* raises ("lookup might fail or return None"); for a malformed id it raises.
by_guid_call(model, guid) ==
    IF ~WellFormed(guid) THEN {Raise}
    ELSE IF exists(model, guid) THEN {Ok(model[guid])}
    ELSE {Ok(NoEntity), Raise}

\* The spatial structure: the container with a given name, as
\* ut.get_container returns it for an entity or a container placed in it
\* (None for what is placed nowhere).
SpatialElement(name) ==
    CASE name = "" -> None
      [] name = "Level 1" -> [IfcType |-> "IfcBuildingStorey", Name |-> "Level 1", Container |-> ""]
      [] name = "LEVEL 2 " -> [IfcType |-> "IfcBuildingStorey", Name |-> "LEVEL 2 ", Container |-> ""]
      [] name = "Room 1" -> [IfcType |-> "IfcSpace", Name |-> "Room 1", Container |-> "Level 1"]
      [] name = "Site" -> [IfcType |-> "IfcSite", Name |-> "Site", Container |-> ""]

get_container(element) == SpatialElement(element.Container)


(***************************************************************************)
(* geometry.py                                                             *)
(***************************************************************************)
\* The no-geometry sentinel (Python False).
False == [sentinel |-> TRUE]


\* Python truthiness of a mesh variable: False and None are falsy, a Trimesh is truthy.
Truthy(mesh) == mesh # False /\ mesh # None

generate_mesh_of_element(ifc_element) ==
    IF ~ifc_element.Representation.present THEN False
    ELSE IF ~ifc_element.Representation.converts THEN False
    ELSE ifc_element.Representation.mesh

\* np.round(x, 3)
Round3(x) == RoundTo(x, 100)

extract_geometric_properties(mesh) ==
    IF mesh = False THEN None
    ELSE LET aabb_extents == SortList(mesh.extents)
             obb_extents == SortList(mesh.obb_extents)
         IN  [XCenter |-> Round3(mesh.centroid[1]),
              YCenter |-> Round3(mesh.centroid[2]),
              ZCenter |-> Round3(mesh.centroid[3]),
              AABB1 |-> Round3(aabb_extents[1]),
              AABB2 |-> Round3(aabb_extents[2]),
              AABB3 |-> Round3(aabb_extents[3]),
              OBB1 |-> Round3(obb_extents[1]),
              OBB2 |-> Round3(obb_extents[2]),
              OBB3 |-> Round3(obb_extents[3]),
              Volume |-> Round3(mesh.volume),
              SurfaceArea |-> Round3(mesh.area),
              IsWaterTight |-> mesh.is_watertight]

Min2(a, b) == IF a <= b THEN a ELSE b
Max2(a, b) == IF a >= b THEN a ELSE b

\* The first n elements of a sequence (all of it when it is shorter).
Take(s, n) == SubSeq(s, 1, Min2(Max2(n, 0), Len(s)))

\* Grid-projection sampling: the candidates of the grid, projected by
\* trimesh's closest_point, are the mesh's grid_points; about
\* count * oversample of them are produced.
sample_mesh_with_grid(mesh, count, oversample) ==
    IF count <= 0 \/ mesh.area <= 0 THEN Ok(<<>>)
    ELSE IF oversample < 1 THEN Raise
    ELSE Ok(Take(mesh.grid_points, count * oversample))

\* trimesh.sample.sample_surface_even(mesh, count, seed=0): at most count
\* points of the surface, the same ones on every call; it has no surface to
\* sample on a mesh without area.
sample_surface_even(mesh, count) ==
    IF count <= 0 \/ mesh.area <= 0 THEN <<>> ELSE Take(mesh.even_points, count)

RECURSIVE ISqrtBetween(_, _, _)
ISqrtBetween(lo, hi, x) ==
    IF lo >= hi THEN lo
    ELSE LET mid == (lo + hi + 1) \div 2
         IN  IF mid * mid <= x THEN ISqrtBetween(mid, hi, x) ELSE ISqrtBetween(lo, mid - 1, x)

\* The square root, rounded down to a whole unit.
ISqrt(x) == ISqrtBetween(0, 46340, x)

\* np.linalg.norm(q - p)
Distance(p, q) ==
    ISqrt((q[1] - p[1]) * (q[1] - p[1]) + (q[2] - p[2]) * (q[2] - p[2])
          + (q[3] - p[3]) * (q[3] - p[3]))

RECURSIVE MinOf(_)
MinOf(s) == IF Len(s) = 1 THEN s[1] ELSE Min2(s[1], MinOf(Tail(s)))

RECURSIVE MaxOf(_)
MaxOf(s) == IF Len(s) = 1 THEN s[1] ELSE Max2(s[1], MaxOf(Tail(s)))


\* A loop that measures each point against the first point of the other
\* set instead of the closest one.
FirstDistances(from, to) ==
    IF from # <<>> /\ to = <<>> THEN Raise
    ELSE Ok([i \in DOMAIN from |-> Distance(from[i], to[1])])

\* For each point of `from`, min(distances to the points of `to`); the
\* built-in min raises on an empty sequence.
ClosestDistances(from, to) ==
    IF from # <<>> /\ to = <<>> THEN Raise
    ELSE Ok([i \in DOMAIN from |-> MinOf([j \in DOMAIN to |-> Distance(from[i], to[j])])])


\* A distance that runs only the first of the two loops.
hausdorff_one_way(mesh1, mesh2, sampling_count, over_sampling, use_trimesh_sampling) ==
    IF ~Truthy(mesh1) \/ ~Truthy(mesh2) THEN Ok(None)
    ELSE LET samples_mesh1 ==
                 IF use_trimesh_sampling THEN Ok(sample_surface_even(mesh1, sampling_count))
                 ELSE sample_mesh_with_grid(mesh1, sampling_count, over_sampling)
             samples_mesh2 ==
                 IF use_trimesh_sampling THEN Ok(sample_surface_even(mesh2, sampling_count))
                 ELSE sample_mesh_with_grid(mesh2, sampling_count, over_sampling)
         IN  IF ~samples_mesh1.ok \/ ~samples_mesh2.ok THEN Raise
             ELSE LET to_mesh2 == ClosestDistances(samples_mesh1.val, samples_mesh2.val)
                  IN  IF ~to_mesh2.ok \/ to_mesh2.val = <<>> THEN Raise
                      ELSE Ok(Num(MaxOf(to_mesh2.val)))

hausdorff_distance_between_meshes(mesh1, mesh2, sampling_count, over_sampling, use_trimesh_sampling) ==
    IF ~Truthy(mesh1) \/ ~Truthy(mesh2) THEN Ok(None)
    ELSE LET samples_mesh1 ==
                 IF use_trimesh_sampling THEN Ok(sample_surface_even(mesh1, sampling_count))
                 ELSE sample_mesh_with_grid(mesh1, sampling_count, over_sampling)
             samples_mesh2 ==
                 IF use_trimesh_sampling THEN Ok(sample_surface_even(mesh2, sampling_count))
                 ELSE sample_mesh_with_grid(mesh2, sampling_count, over_sampling)
         IN  IF ~samples_mesh1.ok \/ ~samples_mesh2.ok THEN Raise
             ELSE LET to_mesh2 == ClosestDistances(samples_mesh1.val, samples_mesh2.val)
                      to_mesh1 == ClosestDistances(samples_mesh2.val, samples_mesh1.val)
                  IN  IF ~to_mesh2.ok \/ ~to_mesh1.ok THEN Raise
                      ELSE LET all_distances == to_mesh2.val \o to_mesh1.val
                           IN  \* np.max raises on an empty list
                               IF all_distances = <<>> THEN Raise
                               ELSE Ok(Num(MaxOf(all_distances)))

\* The default of are_meshes_different's tolerance parameter, 1e-2.
DefaultShapeTolerance == 1000


\* A comparison that takes an absent distance for a difference.
are_meshes_different_when_absent(mesh1, mesh2, use_trimesh_sampling, sampling_count, over_sampling, tolerance) ==
    LET distance == hausdorff_distance_between_meshes(mesh1, mesh2, sampling_count,
                                                      over_sampling, use_trimesh_sampling)
    IN  IF ~distance.ok THEN Raise
        ELSE IF distance.val = None THEN Ok(TRUE)
        ELSE Ok(distance.val.num > tolerance)

\* A comparison that reports a distance equal to the tolerance as different.
are_meshes_different_inclusive(mesh1, mesh2, use_trimesh_sampling, sampling_count, over_sampling, tolerance) ==
    LET distance == hausdorff_distance_between_meshes(mesh1, mesh2, sampling_count,
                                                      over_sampling, use_trimesh_sampling)
    IN  IF ~distance.ok THEN Raise
        ELSE IF distance.val = None THEN Ok(FALSE)
        ELSE Ok(distance.val.num >= tolerance)

are_meshes_different(mesh1, mesh2, use_trimesh_sampling, sampling_count, over_sampling, tolerance) ==
    LET distance == hausdorff_distance_between_meshes(mesh1, mesh2, sampling_count,
                                                      over_sampling, use_trimesh_sampling)
    IN  IF ~distance.ok THEN Raise
        ELSE IF distance.val = None THEN Ok(FALSE)
        ELSE Ok(distance.val.num > tolerance)


(***************************************************************************)
(* semantics.py: the attributed graph of one entity.  A graph is its node  *)
(* mapping (node key -> attribute mapping) and its set of directed edges.  *)
(***************************************************************************)
EmptyGraph == [nodes |-> <<>>, edges |-> {}]

\* nx.DiGraph.add_node(key, **attrs): a node that exists keeps its other attributes.
add_node(graph, key, attrs) ==
    LET old == IF key \in DOMAIN graph.nodes THEN graph.nodes[key] ELSE <<>>
    IN  [graph EXCEPT !.nodes = (key :> (attrs @@ old)) @@ graph.nodes]

\* nx.DiGraph.add_edge(u, v): creates the nodes it does not find.
add_edge(graph, u, v) ==
    LET with_u == IF u \in DOMAIN graph.nodes THEN graph ELSE add_node(graph, u, <<>>)
        with_v == IF v \in DOMAIN with_u.nodes THEN with_u ELSE add_node(with_u, v, <<>>)
    IN  [with_v EXCEPT !.edges = @ \cup {<<u, v>>}]

\* A comparison of the node keys and edges that ignores the attributes (a faulty variant).
graphs_equal_by_keys(graph1, graph2) ==
    DOMAIN graph1.nodes = DOMAIN graph2.nodes /\ graph1.edges = graph2.edges

\* networkx.utils.graphs_equal: same adjacency, same nodes with the same data.
graphs_equal(graph1, graph2) ==
    graph1.nodes = graph2.nodes /\ graph1.edges = graph2.edges

\* np.round(x, 4)
Round4(x) == RoundTo(x, 10)

NameOr(name, fallback) == IF name = "" THEN fallback ELSE name

\* pset_data, filled property by property, then cleaned of the None values.
RECURSIVE clean_pset_data(_)
clean_pset_data(props) ==
    IF props = <<>> THEN <<>>
    ELSE LET prop == props[Len(props)]
             rest == clean_pset_data(SubSeq(props, 1, Len(props) - 1))
         IN  IF prop.NominalValue = None
             THEN [k \in DOMAIN rest \ {prop.Name} |-> rest[k]]
             ELSE (prop.Name :> prop.NominalValue) @@ rest

quantity_types ==
    {"IfcQuantityLength", "IfcQuantityArea", "IfcQuantityCount",
     "IfcQuantityTime", "IfcQuantityVolume", "IfcQuantityWeight"}

RECURSIVE quantity_data(_)
quantity_data(quantities) ==
    IF quantities = <<>> THEN <<>>
    ELSE LET qty == quantities[Len(quantities)]
             rest == quantity_data(SubSeq(quantities, 1, Len(quantities) - 1))
         IN  IF qty.kind \in quantity_types
             THEN (qty.Name :> Num(Round4(qty.value))) @@ rest
             ELSE rest

\* The loop over elem.IsDefinedBy.
RECURSIVE add_definitions(_, _, _)
add_definitions(graph, element_guid, definitions) ==
    IF definitions = <<>> THEN graph
    ELSE LET definition == Head(definitions)
             node_attrs ==
                 IF definition.kind = "IfcPropertySet"
                 THEN [Name |-> Str(definition.Name), type |-> Str("IfcPropertySet")]
                          @@ clean_pset_data(definition.items)
                 ELSE [name |-> Str(definition.Name), type |-> Str(definition.kind)]
                          @@ quantity_data(definition.items)
             next_graph ==
                 IF definition.kind \in {"IfcPropertySet", "IfcElementQuantity"}
                 THEN add_edge(add_node(graph, definition.GlobalId, node_attrs),
                               element_guid, definition.GlobalId)
                 ELSE graph
         IN  add_definitions(next_graph, element_guid, Tail(definitions))

\* The loops over elem.IsDecomposedBy (relation="Child") and elem.Decomposes
\* (Relation="Parent").
RECURSIVE add_relatives(_, _, _, _)
add_relatives(graph, element_guid, relatives, is_child) ==
    IF relatives = <<>> THEN graph
    ELSE LET relative == Head(relatives)
             base == [Name |-> Str(NameOr(relative.Name, "un-named")),
                      IfcType |-> Str(relative.IfcType)]
             node_attrs == IF is_child THEN ("relation" :> Str("Child")) @@ base
                           ELSE ("Relation" :> Str("Parent")) @@ base
             next_graph == add_edge(add_node(graph, relative.GlobalId, node_attrs),
                                    element_guid, relative.GlobalId)
         IN  add_relatives(next_graph, element_guid, Tail(relatives), is_child)

create_element_graph(element_guid, model) ==
    LET elem == by_guid(model, element_guid)
    IN  IF elem = NoEntity THEN EmptyGraph
        ELSE LET level == NameOr(elem.Container, "No Parent")
                 root == add_node(EmptyGraph, element_guid,
                                  [Name |-> Str(NameOr(elem.Name, "un-named")),
                                   IfcType |-> Str(elem.IfcType),
                                   Space_container |-> Str(level)])
                 with_definitions == add_definitions(root, element_guid, elem.IsDefinedBy)
                 with_children ==
                     add_relatives(with_definitions, element_guid, elem.IsDecomposedBy, TRUE)
             IN  add_relatives(with_children, element_guid, elem.Decomposes, FALSE)

\* The outcomes of create_element_graph as a call, for any id: the lookup is
\* its first statement, outside any try block, and the test for a missing
\* entity follows it.
create_element_graph_call(element_guid, model) ==
    {IF found.ok THEN Ok(create_element_graph(element_guid, model)) ELSE Raise :
        found \in by_guid_call(model, element_guid)}

\* dictdiffer.diff(first, second) of two flat mappings: one entry per key
\* that changed, was added or was removed.
DictDiff(first, second) ==
    {[op |-> "change", key |-> k, old |-> first[k], new |-> second[k]] :
        k \in {x \in DOMAIN first \cap DOMAIN second : first[x] # second[x]}}
    \cup {[op |-> "add", key |-> k, old |-> None, new |-> second[k]] :
        k \in DOMAIN second \ DOMAIN first}
    \cup {[op |-> "remove", key |-> k, old |-> first[k], new |-> None] :
        k \in DOMAIN first \ DOMAIN second}


(***************************************************************************)
(* core_ifc.py: the identifier-set resolver.  An operation whose result    *)
(* depends on the iteration order of a Python set is modelled by the set   *)
(* of lists it may return.                                                 *)
(***************************************************************************)

\* A resolver that forgets the subtraction: every id of the type in model2.
get_added_unfiltered(ifc_type, m1, m2) == ListsOf(guids_of_type(m2, ifc_type))

get_added_element_guids(ifc_type, m1, m2) ==
    LET guids_v1 == guids_of_type(m1, ifc_type)
        guids_v2 == guids_of_type(m2, ifc_type)
    IN  ListsOf(guids_v2 \ guids_v1)

get_deleted_element_guids(ifc_type, m1, m2) ==
    LET guids_v1 == guids_of_type(m1, ifc_type)
        guids_v2 == guids_of_type(m2, ifc_type)
    IN  ListsOf(guids_v1 \ guids_v2)


\* A resolver that forgets shared_guids.sort().
get_shared_unsorted(ifc_type, m1, m2) ==
    ListsOf(guids_of_type(m1, ifc_type) \cap guids_of_type(m2, ifc_type))

get_shared_element_guids(ifc_type, m1, m2) ==
    LET guids_v1 == guids_of_type(m1, ifc_type)
        guids_v2 == guids_of_type(m2, ifc_type)
    IN  {SortList(shared_guids) : shared_guids \in ListsOf(guids_v1 \cap guids_v2)}

\* guid_exists with an unprotected lookup (a faulty variant).
guid_exists_unguarded(found) ==
    IF found.ok THEN Ok(found.val # NoEntity) ELSE Raise

\* The body of guid_exists for one outcome of the lookup: the lookup is in a
\* try block, and any exception gives False.
guid_exists_of(found) ==
    IF found.ok THEN Ok(found.val # NoEntity) ELSE Ok(FALSE)

\* The outcomes of guid_exists(guid, ifc_path, model).
guid_exists_call(guid, model) ==
    {guid_exists_of(found) : found \in by_guid_call(model, guid)}

\* guid_exists as a condition of the caller.
guid_exists(guid, model) == guid_exists_call(guid, model) = {Ok(TRUE)}

(***************************************************************************)
(* diffing.py: check_if_element_moved.                                     *)
(***************************************************************************)
Abs(x) == IF x >= 0 THEN x ELSE -x

\* atol=1e-4 of the np.allclose call, in units.
MoveAtol == 10

\* 1 / rtol of np.allclose (rtol is left at numpy's 1e-5).
InverseRtol == 100000

\* np.allclose(a, b, atol=1e-4): |a - b| <= atol + rtol * |b| in every component.
allclose(a, b) ==
    \A i \in 1..3 : (Abs(a[i] - b[i]) - MoveAtol) * InverseRtol <= Abs(b[i])

\* The movement test with the tolerance included (a faulty variant).
move_dist_reaches(v_sum, tolerance) ==
    \/ \E i \in 1..3 : Abs(v_sum[i]) > 2 * tolerance
    \/ v_sum[1] * v_sum[1] + v_sum[2] * v_sum[2] + v_sum[3] * v_sum[3] >= 4 * tolerance * tolerance

\* np.linalg.norm(0.5 * (v_min + v_max)) > tolerance, on v_sum = v_min + v_max:
\* |v_sum| > 2 * tolerance.  A component beyond 2 * tolerance settles it
\* before any square is taken.
move_dist_exceeds(v_sum, tolerance) ==
    \/ \E i \in 1..3 : Abs(v_sum[i]) > 2 * tolerance
    \/ v_sum[1] * v_sum[1] + v_sum[2] * v_sum[2] + v_sum[3] * v_sum[3] > 4 * tolerance * tolerance

\* check_if_element_moved from the two generated meshes on.  The guard
\* tests `is None`; generate_mesh_of_element gives False for no geometry,
\* and reading .bounds of False raises AttributeError.
moved_between(mesh1, mesh2, tolerance) ==
    IF mesh1 = None \/ mesh2 = None THEN Ok(FALSE)
    ELSE IF mesh1 = False \/ mesh2 = False THEN Raise
    ELSE LET min1 == mesh1.bounds[1]
             max1 == mesh1.bounds[2]
             min2 == mesh2.bounds[1]
             max2 == mesh2.bounds[2]
             v_min == [i \in 1..3 |-> min2[i] - min1[i]]
             v_max == [i \in 1..3 |-> max2[i] - max1[i]]
         IN  IF ~allclose(v_min, v_max) THEN Ok(FALSE)
             ELSE Ok(move_dist_exceeds([i \in 1..3 |-> v_min[i] + v_max[i]], tolerance))

\* check_if_element_moved for one outcome of each of the two lookups.
moved_of(found1, found2, tolerance) ==
    IF ~found1.ok \/ ~found2.ok THEN Raise
    ELSE IF found1.val = NoEntity \/ found2.val = NoEntity THEN Ok(FALSE)
    ELSE moved_between(generate_mesh_of_element(found1.val),
                       generate_mesh_of_element(found2.val), tolerance)

\* The outcomes of check_if_element_moved(guid, tolerance, model1, model2).
check_if_element_moved(guid, tolerance, m1, m2) ==
    {moved_of(found1, found2, tolerance) :
        found1 \in by_guid_call(m1, guid), found2 \in by_guid_call(m2, guid)}

(***************************************************************************)
(* diffing.py: the boolean modification test.  A policy is the record of   *)
(* the check flags and of the sampling arguments the caller passes on.     *)
(***************************************************************************)
\* Check 1 of is_element_modified: the booleans it appends.
semantic_checks(element_graph1, element_graph2, policy) ==
    IF policy.check_semantic
    THEN <<~graphs_equal(element_graph1, element_graph2)>>
    ELSE <<>>

\* mesh1 and mesh2 of is_element_modified after check 2: generated only when
\* the geometric check is enabled, None otherwise.
modified_meshes(element1, element2, policy) ==
    IF policy.geometry_check
    THEN <<generate_mesh_of_element(element1), generate_mesh_of_element(element2)>>
    ELSE <<None, None>>


\* A geometric check that compares the meshes themselves, not their rounded descriptors.
geometric_checks_raw(mesh1, mesh2, policy) ==
    IF policy.geometry_check THEN <<~(mesh1 = mesh2)>> ELSE <<>>

\* A geometric check that reports no change whenever a mesh is missing (a faulty variant).
geometric_checks_of_present(mesh1, mesh2, policy) ==
    IF policy.geometry_check
    THEN IF mesh1 # False /\ mesh2 # False
         THEN <<~(extract_geometric_properties(mesh1) = extract_geometric_properties(mesh2))>>
         ELSE <<FALSE>>
    ELSE <<>>

\* Check 2 of is_element_modified: the booleans it appends.
geometric_checks(mesh1, mesh2, policy) ==
    IF policy.geometry_check
    THEN IF mesh1 # False /\ mesh2 # False
         THEN <<~(extract_geometric_properties(mesh1) = extract_geometric_properties(mesh2))>>
         ELSE <<~(mesh1 = mesh2)>>
    ELSE <<>>

\* Check 3 of is_element_modified: the booleans it appends, or the exception.
shape_checks(mesh1, mesh2, policy) ==
    IF policy.check_shape
    THEN LET shape_changed ==
                 are_meshes_different(mesh1, mesh2, policy.use_trimesh_sampling,
                                      policy.sampling_count, policy.over_sampling,
                                      DefaultShapeTolerance)
         IN  IF shape_changed.ok THEN Ok(<<shape_changed.val>>) ELSE Raise
    ELSE Ok(<<>>)


\* A test that appends the shape boolean first.
is_element_modified_shape_first(element_graph1, element_graph2, guid, policy, m1, m2) ==
    LET meshes == modified_meshes(by_guid(m1, guid), by_guid(m2, guid), policy)
        shape == shape_checks(meshes[1], meshes[2], policy)
    IN  IF ~shape.ok THEN Raise
        ELSE Ok(shape.val \o semantic_checks(element_graph1, element_graph2, policy)
                \o geometric_checks(meshes[1], meshes[2], policy))

is_element_modified(element_graph1, element_graph2, guid, policy, m1, m2) ==
    LET element1 == by_guid(m1, guid)
        element2 == by_guid(m2, guid)
        meshes == modified_meshes(element1, element2, policy)
        shape == shape_checks(meshes[1], meshes[2], policy)
    IN  IF ~shape.ok THEN Raise
        ELSE Ok(semantic_checks(element_graph1, element_graph2, policy)
                \o geometric_checks(meshes[1], meshes[2], policy)
                \o shape.val)

\* The modification vector of one shared id, as the callers obtain it.
checks_of(guid, policy, m1, m2) ==
    is_element_modified(create_element_graph(guid, m1), create_element_graph(guid, m2),
                        guid, policy, m1, m2)

\* A loop that lists an entity by the first boolean of its vector only (a faulty variant).
RECURSIVE modified_among_by_first(_, _, _, _)
modified_among_by_first(shared_guids, policy, m1, m2) ==
    IF shared_guids = <<>> THEN Ok(<<>>)
    ELSE LET checks == checks_of(Head(shared_guids), policy, m1, m2)
             rest == modified_among_by_first(Tail(shared_guids), policy, m1, m2)
         IN  IF ~checks.ok \/ ~rest.ok THEN Raise
             ELSE IF Len(checks.val) = 0 THEN rest
             ELSE IF checks.val[1] THEN Ok(<<Head(shared_guids)>> \o rest.val)
             ELSE rest

\* The loop of find_modified_elements_guids over the shared ids.
RECURSIVE modified_among(_, _, _, _)
modified_among(shared_guids, policy, m1, m2) ==
    IF shared_guids = <<>> THEN Ok(<<>>)
    ELSE LET checks == checks_of(Head(shared_guids), policy, m1, m2)
             rest == modified_among(Tail(shared_guids), policy, m1, m2)
         IN  IF ~checks.ok \/ ~rest.ok THEN Raise
             ELSE IF Len(checks.val) = 0 THEN rest
             ELSE IF PyAny(checks.val) THEN Ok(<<Head(shared_guids)>> \o rest.val)
             ELSE rest

find_modified_elements_guids(ifc_type, policy, m1, m2) ==
    {modified_among(shared_guids, policy, m1, m2) :
        shared_guids \in get_shared_element_guids(ifc_type, m1, m2)}


\* A loop that, like the loop of find_modified_elements_guids, skips an
\* entity whose vector is empty.
RECURSIVE unmodified_among_skipping(_, _, _, _)
unmodified_among_skipping(shared_guids, policy, m1, m2) ==
    IF shared_guids = <<>> THEN Ok(<<>>)
    ELSE LET checks == checks_of(Head(shared_guids), policy, m1, m2)
             rest == unmodified_among_skipping(Tail(shared_guids), policy, m1, m2)
         IN  IF ~checks.ok \/ ~rest.ok THEN Raise
             ELSE IF Len(checks.val) = 0 \/ PyAny(checks.val) THEN rest
             ELSE Ok(<<Head(shared_guids)>> \o rest.val)

\* The loop of find_unmodified_elements_guids over the shared ids.
RECURSIVE unmodified_among(_, _, _, _)
unmodified_among(shared_guids, policy, m1, m2) ==
    IF shared_guids = <<>> THEN Ok(<<>>)
    ELSE LET checks == checks_of(Head(shared_guids), policy, m1, m2)
             rest == unmodified_among(Tail(shared_guids), policy, m1, m2)
         IN  IF ~checks.ok \/ ~rest.ok THEN Raise
             ELSE IF PyAny(checks.val) THEN rest
             ELSE Ok(<<Head(shared_guids)>> \o rest.val)

find_unmodified_elements_guids(ifc_type, policy, m1, m2) ==
    {unmodified_among(shared_guids, policy, m1, m2) :
        shared_guids \in get_shared_element_guids(ifc_type, m1, m2)}


(***************************************************************************)
(* diffing.py: the detailed change list of one entity.  Its items:         *)
(*   {"Added": data}, {"Deleted": data}, {node: diff}, the diff of the two *)
(*   descriptors, {"Shape OR Position Change": "True"}.                    *)
(***************************************************************************)
AddedItem(data) == [item |-> "Added", data |-> data]
DeletedItem(data) == [item |-> "Deleted", data |-> data]
NodeDiffItem(node, difference) == [item |-> "NodeDiff", node |-> node, diff |-> difference]
GeometryDiffItem(difference) == [item |-> "GeometryDiff", diff |-> difference]
ShapeItem == [item |-> "Shape OR Position Change", value |-> "True"]


\* A semantic check that emits a field-level item for every shared node,
\* changed or not.
semantic_changes_all_shared(guid, policy, m1, m2) ==
    LET graph_v1 == create_element_graph(guid, m1)
        graph_v2 == create_element_graph(guid, m2)
        nodes_v1 == DOMAIN graph_v1.nodes
        nodes_v2 == DOMAIN graph_v2.nodes
    IN  IF policy.check_semantic /\ ~graphs_equal(graph_v1, graph_v2)
        THEN {[i \in DOMAIN added_nodes |-> AddedItem(graph_v2.nodes[added_nodes[i]])]
              \o [i \in DOMAIN deleted_nodes |-> DeletedItem(graph_v1.nodes[deleted_nodes[i]])]
              \o [i \in DOMAIN shared_nodes |->
                     NodeDiffItem(shared_nodes[i],
                                  DictDiff(graph_v1.nodes[shared_nodes[i]],
                                           graph_v2.nodes[shared_nodes[i]]))] :
                 added_nodes \in ListsOf(nodes_v2 \ nodes_v1),
                 deleted_nodes \in ListsOf(nodes_v1 \ nodes_v2),
                 shared_nodes \in ListsOf(nodes_v2 \cap nodes_v1)}
        ELSE {<<>>}

\* The items the semantic check of analyze_element_changes appends: the
\* added nodes, the deleted nodes and the shared nodes are each visited in
\* the iteration order of a set.
semantic_changes(guid, policy, m1, m2) ==
    LET graph_v1 == create_element_graph(guid, m1)
        graph_v2 == create_element_graph(guid, m2)
        nodes_v1 == DOMAIN graph_v1.nodes
        nodes_v2 == DOMAIN graph_v2.nodes
        changed_nodes == {node \in nodes_v2 \cap nodes_v1 :
                             graph_v1.nodes[node] # graph_v2.nodes[node]}
    IN  IF policy.check_semantic /\ ~graphs_equal(graph_v1, graph_v2)
        THEN {[i \in DOMAIN added_nodes |-> AddedItem(graph_v2.nodes[added_nodes[i]])]
              \o [i \in DOMAIN deleted_nodes |-> DeletedItem(graph_v1.nodes[deleted_nodes[i]])]
              \o [i \in DOMAIN shared_nodes |->
                     NodeDiffItem(shared_nodes[i],
                                  DictDiff(graph_v1.nodes[shared_nodes[i]],
                                           graph_v2.nodes[shared_nodes[i]]))] :
                 added_nodes \in ListsOf(nodes_v2 \ nodes_v1),
                 deleted_nodes \in ListsOf(nodes_v1 \ nodes_v2),
                 shared_nodes \in ListsOf(changed_nodes)}
        ELSE {<<>>}

\* mesh1 and mesh2 of analyze_element_changes after the geometry check.
analyzed_meshes(guid, policy, m1, m2) ==
    IF policy.geometry_check
    THEN <<generate_mesh_of_element(by_guid(m1, guid)), generate_mesh_of_element(by_guid(m2, guid))>>
    ELSE <<None, None>>

\* The items the geometry check of analyze_element_changes appends.
geometry_changes(mesh1, mesh2, policy) ==
    IF policy.geometry_check /\ Truthy(mesh1) /\ Truthy(mesh2)
    THEN LET geometry_data1 == extract_geometric_properties(mesh1)
             geometry_data2 == extract_geometric_properties(mesh2)
         IN  IF geometry_data1 = geometry_data2 THEN <<>>
             ELSE <<GeometryDiffItem(DictDiff(geometry_data1, geometry_data2))>>
    ELSE <<>>

\* The items the shape check of analyze_element_changes appends, or the exception.
shape_changes(guid, mesh1, mesh2, policy, m1, m2) ==
    IF ~policy.check_shape THEN Ok(<<>>)
    ELSE LET reuse == Truthy(mesh1) /\ Truthy(mesh2)
             shape_mesh1 == IF reuse THEN mesh1 ELSE generate_mesh_of_element(by_guid(m1, guid))
             shape_mesh2 == IF reuse THEN mesh2 ELSE generate_mesh_of_element(by_guid(m2, guid))
         IN  IF Truthy(shape_mesh1) /\ Truthy(shape_mesh2)
             THEN LET shape_changed ==
                          are_meshes_different(shape_mesh1, shape_mesh2,
                                               policy.use_trimesh_sampling, policy.sampling_count,
                                               policy.over_sampling, DefaultShapeTolerance)
                  IN  IF ~shape_changed.ok THEN Raise
                      ELSE IF shape_changed.val THEN Ok(<<ShapeItem>>)
                      ELSE Ok(<<>>)
             ELSE Ok(<<>>)

\* The change list with the shape item ahead of the geometric item (a faulty variant).
analyze_element_changes_shape_first(guid, policy, m1, m2) ==
    LET element == by_guid(m1, guid)
        meshes == analyzed_meshes(guid, policy, m1, m2)
        shape == shape_changes(guid, meshes[1], meshes[2], policy, m1, m2)
    IN  IF is_a(element, "IfcBuildingElementProxy") THEN {Ok(<<>>)}
        ELSE IF ~shape.ok THEN {Raise}
        ELSE {Ok(semantic \o shape.val \o geometry_changes(meshes[1], meshes[2], policy)) :
                 semantic \in semantic_changes(guid, policy, m1, m2)}

\* The change list built for every entity, proxies included (a faulty variant).
analyze_element_changes_of_any(guid, policy, m1, m2) ==
    LET meshes == analyzed_meshes(guid, policy, m1, m2)
        shape == shape_changes(guid, meshes[1], meshes[2], policy, m1, m2)
    IN  IF ~shape.ok THEN {Raise}
        ELSE {Ok(semantic \o geometry_changes(meshes[1], meshes[2], policy) \o shape.val) :
                 semantic \in semantic_changes(guid, policy, m1, m2)}

analyze_element_changes(guid, policy, m1, m2) ==
    LET element == by_guid(m1, guid)
        meshes == analyzed_meshes(guid, policy, m1, m2)
        shape == shape_changes(guid, meshes[1], meshes[2], policy, m1, m2)
    IN  IF is_a(element, "IfcBuildingElementProxy") THEN {Ok(<<>>)}
        ELSE IF ~shape.ok THEN {Raise}
        ELSE {Ok(semantic \o geometry_changes(meshes[1], meshes[2], policy) \o shape.val) :
                 semantic \in semantic_changes(guid, policy, m1, m2)}


(***************************************************************************)
(* reporting.py.  `unwritable` is the set of report files the file system  *)
(* refuses to write during the call.  A report step returns whether it     *)
(* completed and the files it wrote.                                       *)
(***************************************************************************)
ReportFiles ==
    {"Added_Elements.csv", "Deleted_Elements.csv", "Modified_Elements.csv",
     "Modified_Elements.json", "Modified_Elements.txt"}

\* extract_element_data: one row per id found in the model; reading the
\* name of the spatial container raises when the entity has none.
extract_element_data(ListOfGuids, model) ==
    LET found == SelectSeq(ListOfGuids, LAMBDA g : by_guid(model, g) # NoEntity)
    IN  IF \E i \in DOMAIN found : by_guid(model, found[i]).Container = "" THEN Raise
        ELSE Ok(found)

\* One `if guids: ... with open(csv_path, 'w')` block.
write_csv(guids, model, csv_filename, unwritable) ==
    IF guids = <<>> THEN [ok |-> TRUE, files |-> {}]
    ELSE LET data == extract_element_data(guids, model)
         IN  IF ~data.ok THEN [ok |-> FALSE, files |-> {}]
             ELSE IF data.val = <<>> THEN [ok |-> TRUE, files |-> {}]
             ELSE IF csv_filename \in unwritable THEN [ok |-> FALSE, files |-> {}]
             ELSE [ok |-> TRUE, files |-> {csv_filename}]

Write_Added_Deleted_Modified_To_CSV(write_added, write_deleted, write_modified, AddedGuids, DeletedGuids, ModifiedGuids, m1, m2, unwritable) ==
    LET added == IF write_added
                 THEN write_csv(AddedGuids, m2, "Added_Elements.csv", unwritable)
                 ELSE [ok |-> TRUE, files |-> {}]
        deleted == IF write_deleted
                   THEN write_csv(DeletedGuids, m1, "Deleted_Elements.csv", unwritable)
                   ELSE [ok |-> TRUE, files |-> {}]
        \* the block of the modified report is nested in `if write_deleted:`
        modified == IF write_deleted /\ write_modified
                    THEN write_csv(ModifiedGuids, m2, "Modified_Elements.csv", unwritable)
                    ELSE [ok |-> TRUE, files |-> {}]
    IN  IF ~added.ok THEN added
        ELSE IF ~deleted.ok THEN [ok |-> FALSE, files |-> added.files]
        ELSE [ok |-> modified.ok, files |-> added.files \cup deleted.files \cup modified.files]

\* One of the three resolver operations, by the list it fills.
resolved(which, ifc_type, m1, m2) ==
    CASE which = "added" -> get_added_element_guids(ifc_type, m1, m2)
      [] which = "deleted" -> get_deleted_element_guids(ifc_type, m1, m2)
      [] which = "shared" -> get_shared_element_guids(ifc_type, m1, m2)

\* The ids in a list extended with the result of one resolver operation for
\* each type of the list, for each way the per-type calls may return.
RECURSIVE extended(_, _, _, _)
extended(which, ifc_type_list, m1, m2) ==
    IF ifc_type_list = <<>> THEN {{}}
    ELSE {Range(part) \cup rest :
             part \in resolved(which, Head(ifc_type_list), m1, m2),
             rest \in extended(which, Tail(ifc_type_list), m1, m2)}

\* list(set(extended_list)): the lists the deduplication may return.
deduplicated(which, ifc_type_list, m1, m2) ==
    UNION {ListsOf(ids) : ids \in extended(which, ifc_type_list, m1, m2)}

\* The loop of GenerateReportOfChanges over the shared ids: the modified
\* and unmodified lists, or the exception of analyze_element_changes.
RECURSIVE analyzed_shared(_, _, _, _)
analyzed_shared(shared_guids, policy, m1, m2) ==
    IF shared_guids = <<>> THEN {[ok |-> TRUE, modified |-> <<>>, unmodified |-> <<>>]}
    ELSE {IF ~changes.ok \/ ~rest.ok THEN [ok |-> FALSE, modified |-> <<>>, unmodified |-> <<>>]
          ELSE IF changes.val # <<>>
               THEN [rest EXCEPT !.modified = <<Head(shared_guids)>> \o @]
               ELSE [rest EXCEPT !.unmodified = <<Head(shared_guids)>> \o @] :
             changes \in analyze_element_changes(Head(shared_guids), policy, m1, m2),
             rest \in analyzed_shared(Tail(shared_guids), policy, m1, m2)}

Returned(added, deleted, modified, unmodified, files) ==
    [ok |-> TRUE, added |-> added, deleted |-> deleted, modified |-> modified,
     unmodified |-> unmodified, files |-> files]

Raised(files) == [ok |-> FALSE, files |-> files]

\* The report writes of GenerateReportOfChanges after the loop.
report_writes(added_guids, deleted_guids, shared, m1, m2, unwritable) ==
    LET csv == Write_Added_Deleted_Modified_To_CSV(TRUE, TRUE, TRUE, added_guids, deleted_guids,
                                                   shared.modified, m1, m2, unwritable)
        json_data == shared.modified # <<>>
    IN  IF ~csv.ok THEN Raised(csv.files)
        ELSE IF ~json_data
        THEN Returned(added_guids, deleted_guids, shared.modified, shared.unmodified, csv.files)
        ELSE IF "Modified_Elements.json" \in unwritable THEN Raised(csv.files)
        ELSE \* a failure of the text report is caught and printed
             Returned(added_guids, deleted_guids, shared.modified, shared.unmodified,
                      csv.files \cup {"Modified_Elements.json"}
                          \cup ({"Modified_Elements.txt"} \ unwritable))

GenerateReportOfChanges(ifc_type_list, policy, m1, m2, unwritable) ==
    UNION {
        IF ~policy.check_semantic /\ ~policy.geometry_check /\ ~policy.check_shape
        THEN {Returned(added_guids, deleted_guids, <<>>, <<>>, {})}
        ELSE {IF ~shared.ok THEN Raised({})
              ELSE report_writes(added_guids, deleted_guids, shared, m1, m2, unwritable) :
                 shared \in analyzed_shared(shared_guids, policy, m1, m2)} :
        added_guids \in deduplicated("added", ifc_type_list, m1, m2),
        deleted_guids \in deduplicated("deleted", ifc_type_list, m1, m2),
        shared_guids \in deduplicated("shared", ifc_type_list, m1, m2)}

(***************************************************************************)
(* diffing.py: ClassifyChangesForGivenGuidList.                            *)
(***************************************************************************)
\* The loop over Shared_guids: the modified and unmodified lists, or the
\* exception of is_element_modified.
RECURSIVE classified_shared(_, _, _, _)
classified_shared(Shared_guids, policy, m1, m2) ==
    IF Shared_guids = <<>> THEN {[ok |-> TRUE, modified |-> <<>>, unmodified |-> <<>>]}
    ELSE {IF ~checks.ok \/ ~rest.ok THEN [ok |-> FALSE, modified |-> <<>>, unmodified |-> <<>>]
          ELSE IF PyAny(checks.val)
               THEN [rest EXCEPT !.modified = <<Head(Shared_guids)>> \o @]
               ELSE [rest EXCEPT !.unmodified = <<Head(Shared_guids)>> \o @] :
             checks \in {checks_of(Head(Shared_guids), policy, m1, m2)},
             rest \in classified_shared(Tail(Shared_guids), policy, m1, m2)}


\* A loop that looks an id up in model1 only.
RECURSIVE guids_where_v1(_, _, _, _, _)
guids_where_v1(guids_list, in_v1, in_v2, m1, m2) ==
    IF guids_list = <<>> THEN <<>>
    ELSE LET rest == guids_where_v1(Tail(guids_list), in_v1, in_v2, m1, m2)
         IN  IF guid_exists(Head(guids_list), m1) = in_v1
             THEN <<Head(guids_list)>> \o rest
             ELSE rest

\* The loop over guids_list: the ids of the list with the given presence in
\* the two snapshots, in the order of the list.
RECURSIVE guids_where(_, _, _, _, _)
guids_where(guids_list, in_v1, in_v2, m1, m2) ==
    IF guids_list = <<>> THEN <<>>
    ELSE LET guid == Head(guids_list)
             rest == guids_where(Tail(guids_list), in_v1, in_v2, m1, m2)
         IN  IF guid_exists(guid, m1) = in_v1 /\ guid_exists(guid, m2) = in_v2
             THEN <<guid>> \o rest
             ELSE rest

\* The report of the classified lists, then the return.
classified_report(Added_guids, Deleted_guids, shared, m1, m2, unwritable) ==
    {IF ~csv.ok THEN Raised(csv.files)
     ELSE Returned(Added_guids, Deleted_guids, shared.modified, shared.unmodified, csv.files) :
        csv \in {Write_Added_Deleted_Modified_To_CSV(TRUE, TRUE, TRUE, Added_guids, Deleted_guids, shared.modified, m1, m2, unwritable)}}

\* The outcomes of the call (one: the lists are built in the order of guids_list).
ClassifyChangesForGivenGuidList(guids_list, policy, m1, m2, unwritable) ==
    UNION {IF ~shared.ok THEN {Raised({})}
           ELSE classified_report(Added_guids, Deleted_guids, shared, m1, m2, unwritable) :
              Deleted_guids \in {guids_where(guids_list, TRUE, FALSE, m1, m2)},
              Added_guids \in {guids_where(guids_list, FALSE, TRUE, m1, m2)},
              shared \in classified_shared(guids_where(guids_list, TRUE, TRUE, m1, m2), policy, m1, m2)}

(***************************************************************************)
(* storey.py.  The names compared are Python strings; a string is the      *)
(* sequence of its characters where the code trims and case-folds it.      *)
(***************************************************************************)
\* The characters of the names of the spatial structure.
Chars(name) ==
    CASE name = "" -> <<>>
      [] name = "Level 1" -> <<"L", "e", "v", "e", "l", " ", "1">>
      [] name = "LEVEL 2 " -> <<"L", "E", "V", "E", "L", " ", "2", " ">>
      [] name = "Room 1" -> <<"R", "o", "o", "m", " ", "1">>
      [] name = "Site" -> <<"S", "i", "t", "e">>

Whitespace == {" "}

RECURSIVE lstrip(_)
lstrip(s) == IF s # <<>> /\ Head(s) \in Whitespace THEN lstrip(Tail(s)) ELSE s

RECURSIVE rstrip(_)
rstrip(s) ==
    IF s # <<>> /\ s[Len(s)] \in Whitespace THEN rstrip(SubSeq(s, 1, Len(s) - 1)) ELSE s

\* str.strip()
strip(s) == rstrip(lstrip(s))

UpperCase ==
    <<"A", "B", "C", "D", "E", "F", "G", "H", "I", "J", "K", "L", "M",
      "N", "O", "P", "Q", "R", "S", "T", "U", "V", "W", "X", "Y", "Z">>

LowerCase ==
    <<"a", "b", "c", "d", "e", "f", "g", "h", "i", "j", "k", "l", "m",
      "n", "o", "p", "q", "r", "s", "t", "u", "v", "w", "x", "y", "z">>

\* str.lower()
lower(s) ==
    [i \in DOMAIN s |->
        IF \E k \in DOMAIN UpperCase : UpperCase[k] = s[i]
        THEN LowerCase[CHOOSE k \in DOMAIN UpperCase : UpperCase[k] = s[i]]
        ELSE s[i]]

\* A Python bool where None is also a possible value.
Bool(b) == [bool |-> b]

\* The while loop of is_element_on_storey: climb from a container to the
\* first IfcBuildingStorey and compare its name with the floor.
RECURSIVE climb(_, _)
climb(container, floor) ==
    IF container = None THEN None
    ELSE IF is_a(container, "IfcBuildingStorey")
         THEN LET storey_name == lower(strip(Chars(container.Name)))
                  floor_name == lower(strip(floor))
              IN  Bool(storey_name = floor_name)
         ELSE climb(get_container(container), floor)

\* is_element_on_storey for one outcome of the lookup.
on_storey_of(found, floor) ==
    IF ~found.ok THEN Raise
    ELSE IF found.val = NoEntity THEN Ok(None)
    ELSE Ok(climb(get_container(found.val), floor))

\* The outcomes of is_element_on_storey(guid, ifc_path, floor, model).
is_element_on_storey(guid, floor, model) ==
    {on_storey_of(found, floor) : found \in by_guid_call(model, guid)}

\* One filter loop of Get_Added_Deleted_Shared_Guids_In_SingleStorey: the
\* ids of the list for which is_element_on_storey returns a true value, in
\* the order of the list, or the exception of is_element_on_storey.
RECURSIVE on_floor(_, _, _)
on_floor(guids, storey, model) ==
    IF guids = <<>> THEN {Ok(<<>>)}
    ELSE {IF ~first.ok \/ ~rest.ok THEN Raise
          ELSE IF first.val = Bool(TRUE) THEN Ok(<<Head(guids)>> \o rest.val)
          ELSE rest :
             first \in is_element_on_storey(Head(guids), storey, model),
             rest \in on_floor(Tail(guids), storey, model)}

\* The shared ids filtered by where the entity was, in snapshot A (a faulty variant).
shared_on_floor_v1(shared_guids, storey, m1, m2) == on_floor(shared_guids, storey, m1)

\* The third filter loop: the shared ids are filtered against snapshot B.
shared_on_floor(shared_guids, storey, m1, m2) == on_floor(shared_guids, storey, m2)

\* The three lists returned, or the exception of a filter loop.
Scoped(added, deleted, shared) ==
    IF ~added.ok \/ ~deleted.ok \/ ~shared.ok THEN Raise
    ELSE Ok([added |-> added.val, deleted |-> deleted.val, shared |-> shared.val])

\* The outcomes of Get_Added_Deleted_Shared_Guids_In_SingleStorey.
Get_Added_Deleted_Shared_Guids_In_SingleStorey(ifc_type_list, storey, m1, m2) ==
    {Scoped(added_on_floor, deleted_on_floor, shared_on_floor_B) :
        added_on_floor \in UNION {on_floor(added_guids, storey, m2) :
                                     added_guids \in deduplicated("added", ifc_type_list, m1, m2)},
        deleted_on_floor \in UNION {on_floor(deleted_guids, storey, m1) :
                                       deleted_guids \in deduplicated("deleted", ifc_type_list, m1, m2)},
        shared_on_floor_B \in UNION {shared_on_floor(shared_guids, storey, m1, m2) :
                                        shared_guids \in deduplicated("shared", ifc_type_list, m1, m2)}}

(***************************************************************************)
(* The inputs of the calls.                                                *)
(***************************************************************************)
\* The sample count of the runs (main.py configures 50).
SamplingCount == 2

\* main.py, CONFIG['over_sampling']
OverSampling == 2

\* The samplers a policy may name: strategy and sample count.
Samplers ==
    {[use_trimesh_sampling |-> FALSE, sampling_count |-> SamplingCount],
     [use_trimesh_sampling |-> TRUE, sampling_count |-> SamplingCount],
     [use_trimesh_sampling |-> FALSE, sampling_count |-> 0]}

PolicyOf(semantic, geometric, shape, sampler) ==
    [check_semantic |-> semantic, geometry_check |-> geometric, check_shape |-> shape,
     use_trimesh_sampling |-> sampler.use_trimesh_sampling,
     sampling_count |-> sampler.sampling_count, over_sampling |-> OverSampling]

\* Every combination of the three flags; the sampler is read by the shape
\* check only, so a policy without it carries the configured one.
Policies ==
    {PolicyOf(semantic, geometric, TRUE, sampler) :
        semantic \in BOOLEAN, geometric \in BOOLEAN, sampler \in Samplers}
    \cup {PolicyOf(semantic, geometric, FALSE, [use_trimesh_sampling |-> FALSE, sampling_count |-> SamplingCount]) :
        semantic \in BOOLEAN, geometric \in BOOLEAN}

\* main.py configures the first list.
TypeLists ==
    {<<"IfcBuildingElement">>, <<"IfcWall", "IfcWallStandardCase">>, <<"IfcWall", "IfcDoor">>}

\* An id that neither snapshot holds.
UnknownGuid == NumGuids + 1

\* A string that is no GlobalId.
MalformedGuid == UnknownGuid + 1

\* The floor names the storey operations are called with.
Floors ==
    {<<"L", "e", "v", "e", "l", " ", "1">>, <<" ", "l", "E", "V", "E", "L", " ", "1", " ">>,
     <<"l", "e", "v", "e", "l", " ", "2">>, <<>>}

\* The id lists ClassifyChangesForGivenGuidList is given.
GuidLists == {<<g, h, UnknownGuid>> : g \in GUIDS, h \in GUIDS}

Tolerances == {0, DefaultShapeTolerance - 1, DefaultShapeTolerance}

\* The report files whose write fails during the call.
Unwritables == {{}, {"Modified_Elements.csv"}, {"Modified_Elements.json"}, {"Modified_Elements.txt"}}

CsvUnwritables == {{}, {"Modified_Elements.csv"}}

SharedIds == {g \in GUIDS : exists(model1, g) /\ exists(model2, g)}

\* No call is in progress: the script runs one operation at a time.
NoCall == [op |-> "none"]

Idle == call = NoCall

(***************************************************************************)
(* The state machine: the two snapshots are opened, then operations are    *)
(* called on them in any order.                                            *)
(***************************************************************************)
Init ==
    /\ \E revision \in [GUIDS -> Revisions] :
          /\ model1 = [g \in GUIDS |-> revision[g][1]]
          /\ model2 = [g \in GUIDS |-> revision[g][2]]
    /\ call = NoCall

GetAdded ==
    /\ Idle
    /\ \E ifc_type \in TypeFilters :
          \E result \in get_added_element_guids(ifc_type, model1, model2) :
              call' = [op |-> "get_added_element_guids", ifc_type |-> ifc_type, result |-> result]
    /\ UNCHANGED <<model1, model2>>

GetDeleted ==
    /\ Idle
    /\ \E ifc_type \in TypeFilters :
          \E result \in get_deleted_element_guids(ifc_type, model1, model2) :
              call' = [op |-> "get_deleted_element_guids", ifc_type |-> ifc_type, result |-> result]
    /\ UNCHANGED <<model1, model2>>

GetShared ==
    /\ Idle
    /\ \E ifc_type \in TypeFilters :
          \E result \in get_shared_element_guids(ifc_type, model1, model2) :
              call' = [op |-> "get_shared_element_guids", ifc_type |-> ifc_type, result |-> result]
    /\ UNCHANGED <<model1, model2>>

AreMeshesDifferent ==
    /\ Idle
    /\ \E guid \in SharedIds, sampler \in Samplers, tolerance \in Tolerances, generated \in BOOLEAN :
          \* the caller passes the meshes it generated, or None when it generated none
          LET mesh1 == IF generated THEN generate_mesh_of_element(by_guid(model1, guid)) ELSE None
              mesh2 == IF generated THEN generate_mesh_of_element(by_guid(model2, guid)) ELSE None
          IN  call' = [op |-> "are_meshes_different", guid |-> guid, mesh1 |-> mesh1,
                       mesh2 |-> mesh2, sampler |-> sampler, tolerance |-> tolerance,
                       distance |-> hausdorff_distance_between_meshes(
                                        mesh1, mesh2, sampler.sampling_count, OverSampling,
                                        sampler.use_trimesh_sampling),
                       result |-> are_meshes_different(
                                      mesh1, mesh2, sampler.use_trimesh_sampling,
                                      sampler.sampling_count, OverSampling, tolerance)]
    /\ UNCHANGED <<model1, model2>>

IsElementModified ==
    /\ Idle
    /\ \E guid \in SharedIds, policy \in Policies :
          call' = [op |-> "is_element_modified", guid |-> guid, policy |-> policy,
                   result |-> checks_of(guid, policy, model1, model2)]
    /\ UNCHANGED <<model1, model2>>

AnalyzeElementChanges ==
    /\ Idle
    /\ \E guid \in SharedIds, policy \in Policies :
          \E result \in analyze_element_changes(guid, policy, model1, model2) :
              call' = [op |-> "analyze_element_changes", guid |-> guid, policy |-> policy,
                       result |-> result]
    /\ UNCHANGED <<model1, model2>>

FindModified ==
    /\ Idle
    /\ \E ifc_type \in TypeFilters, policy \in Policies :
          \E result \in find_modified_elements_guids(ifc_type, policy, model1, model2) :
              call' = [op |-> "find_modified_elements_guids", ifc_type |-> ifc_type,
                       policy |-> policy, result |-> result]
    /\ UNCHANGED <<model1, model2>>

FindUnmodified ==
    /\ Idle
    /\ \E ifc_type \in TypeFilters, policy \in Policies :
          \E result \in find_unmodified_elements_guids(ifc_type, policy, model1, model2) :
              call' = [op |-> "find_unmodified_elements_guids", ifc_type |-> ifc_type,
                       policy |-> policy, result |-> result]
    /\ UNCHANGED <<model1, model2>>

ClassifyChanges ==
    /\ Idle
    /\ \E guids \in GuidLists, policy \in Policies, unwritable \in CsvUnwritables :
          \E result \in ClassifyChangesForGivenGuidList(guids, policy, model1, model2, unwritable) :
              call' = [op |-> "ClassifyChangesForGivenGuidList", guids |-> guids, policy |-> policy,
                       unwritable |-> unwritable, result |-> result]
    /\ UNCHANGED <<model1, model2>>

GenerateReport ==
    /\ Idle
    /\ \E ifc_type_list \in TypeLists, policy \in Policies, unwritable \in Unwritables :
          \E result \in GenerateReportOfChanges(ifc_type_list, policy, model1, model2, unwritable) :
              call' = [op |-> "GenerateReportOfChanges", ifc_type_list |-> ifc_type_list,
                       policy |-> policy, unwritable |-> unwritable, result |-> result]
    /\ UNCHANGED <<model1, model2>>

CheckIfElementMoved ==
    /\ Idle
    /\ \E guid \in GUIDS \cup {UnknownGuid}, tolerance \in Tolerances :
          \E result \in check_if_element_moved(guid, tolerance, model1, model2) :
              call' = [op |-> "check_if_element_moved", guid |-> guid, tolerance |-> tolerance,
                       result |-> result]
    /\ UNCHANGED <<model1, model2>>

GuidExists ==
    /\ Idle
    /\ \E guid \in GUIDS \cup {UnknownGuid, MalformedGuid}, version \in {1, 2} :
          \E found \in by_guid_call(IF version = 1 THEN model1 ELSE model2, guid) :
              call' = [op |-> "guid_exists", guid |-> guid, version |-> version, found |-> found,
                       result |-> guid_exists_of(found)]
    /\ UNCHANGED <<model1, model2>>

IsElementOnStorey ==
    /\ Idle
    /\ \E guid \in GUIDS \cup {UnknownGuid}, version \in {1, 2}, floor \in Floors :
          \E result \in is_element_on_storey(guid, floor, IF version = 1 THEN model1 ELSE model2) :
              call' = [op |-> "is_element_on_storey", guid |-> guid, version |-> version,
                       floor |-> floor, result |-> result]
    /\ UNCHANGED <<model1, model2>>

GetScopedPartition ==
    /\ Idle
    /\ \E ifc_type_list \in TypeLists, storey \in Floors :
          \E result \in Get_Added_Deleted_Shared_Guids_In_SingleStorey(ifc_type_list, storey,
                                                                        model1, model2) :
              call' = [op |-> "Get_Added_Deleted_Shared_Guids_In_SingleStorey",
                       ifc_type_list |-> ifc_type_list, storey |-> storey, result |-> result]
    /\ UNCHANGED <<model1, model2>>

CreateElementGraph ==
    /\ Idle
    /\ \E element_guid \in GUIDS \cup {UnknownGuid}, version \in {1, 2} :
          \E result \in create_element_graph_call(element_guid,
                                                   IF version = 1 THEN model1 ELSE model2) :
              call' = [op |-> "create_element_graph", guid |-> element_guid, version |-> version,
                       result |-> result]
    /\ UNCHANGED <<model1, model2>>

WriteCsv ==
    /\ Idle
    /\ \E write_added, write_deleted, write_modified \in BOOLEAN, unwritable \in CsvUnwritables :
          \E AddedGuids \in get_added_element_guids("IfcBuildingElement", model1, model2),
             DeletedGuids \in get_deleted_element_guids("IfcBuildingElement", model1, model2),
             ModifiedGuids \in get_shared_element_guids("IfcBuildingElement", model1, model2) :
              call' = [op |-> "Write_Added_Deleted_Modified_To_CSV",
                       write_added |-> write_added, write_deleted |-> write_deleted,
                       write_modified |-> write_modified, AddedGuids |-> AddedGuids,
                       DeletedGuids |-> DeletedGuids, ModifiedGuids |-> ModifiedGuids,
                       unwritable |-> unwritable,
                       result |-> Write_Added_Deleted_Modified_To_CSV(
                                      write_added, write_deleted, write_modified, AddedGuids,
                                      DeletedGuids, ModifiedGuids, model1, model2, unwritable)]
    /\ UNCHANGED <<model1, model2>>

\* The call returns to the script, which may make its next call.
Return ==
    /\ ~Idle
    /\ call' = NoCall
    /\ UNCHANGED <<model1, model2>>

Next ==
    \/ GetAdded
    \/ GetDeleted
    \/ GetShared
    \/ AreMeshesDifferent
    \/ IsElementModified
    \/ AnalyzeElementChanges
    \/ FindModified
    \/ FindUnmodified
    \/ ClassifyChanges
    \/ GenerateReport
    \/ CheckIfElementMoved
    \/ GuidExists
    \/ IsElementOnStorey
    \/ GetScopedPartition
    \/ CreateElementGraph
    \/ WriteCsv
    \/ Return

Spec == Init /\ [][Next]_vars


(***************************************************************************)
(* Vocabulary of the properties.                                           *)
(***************************************************************************)
\* ids(A, T): the ids of the entities of a snapshot whose declared type is T
\* or a subtype of T.
ids(model, T) ==
    {g \in GUIDS : model[g] # NoEntity /\ T \in Supertypes(model[g].IfcType)}

ids_of_types(model, ifc_type_list) ==
    UNION {ids(model, ifc_type_list[i]) : i \in DOMAIN ifc_type_list}

\* The list enumerates the set, each member once.
Enumerates(list, S) == Range(list) = S /\ Len(list) = Cardinality(S)

NoChecks(policy) ==
    ~policy.check_semantic /\ ~policy.geometry_check /\ ~policy.check_shape

NonProxy(guid) == "IfcBuildingElementProxy" \notin Supertypes(model1[guid].IfcType)

GraphOf(model, guid) == create_element_graph(guid, model)

MeshIn(model, guid) == generate_mesh_of_element(model[guid])

DescriptorsDiffer(guid) ==
    extract_geometric_properties(MeshIn(model1, guid))
        # extract_geometric_properties(MeshIn(model2, guid))

CountOf(items, kind) == Cardinality({i \in DOMAIN items : items[i].item = kind})

(***************************************************************************)
(* C1.  For one type filter T, get_added_element_guids returns exactly     *)
(* ids(B,T) \ ids(A,T), get_deleted_element_guids exactly                  *)
(* ids(A,T) \ ids(B,T), and get_shared_element_guids exactly               *)
(* ids(A,T) \cap ids(B,T).                                                 *)
(***************************************************************************)
C1_PartitionPerType ==
    /\ call.op = "get_added_element_guids"
          => Enumerates(call.result, ids(model2, call.ifc_type) \ ids(model1, call.ifc_type))
    /\ call.op = "get_deleted_element_guids"
          => Enumerates(call.result, ids(model1, call.ifc_type) \ ids(model2, call.ifc_type))
    /\ call.op = "get_shared_element_guids"
          => Enumerates(call.result, ids(model1, call.ifc_type) \cap ids(model2, call.ifc_type))

\* An added id is returned while another id of the type is shared.
C1_Witness ==
    /\ call.op = "get_added_element_guids"
    /\ call.result # <<>>
    /\ ids(model1, call.ifc_type) \cap ids(model2, call.ifc_type) # {}

(***************************************************************************)
(* C2.  For a list of type filters, the added, deleted and shared ids that *)
(* GenerateReportOfChanges obtains by uniting the per-type partitions and  *)
(* deduplicating are pairwise disjoint, and their union is the union of    *)
(* the two snapshots' ids of those types.  (The shared ids are returned as *)
(* the modified and the unmodified list when a check is enabled.)          *)
(***************************************************************************)
C2_MultiTypePartition ==
    (call.op = "GenerateReportOfChanges" /\ call.result.ok) =>
        LET added == Range(call.result.added)
            deleted == Range(call.result.deleted)
            shared == Range(call.result.modified) \cup Range(call.result.unmodified)
        IN  /\ added \cap deleted = {}
            /\ added \cap shared = {}
            /\ deleted \cap shared = {}
            /\ ~NoChecks(call.policy) =>
                  added \cup deleted \cup shared
                      = ids_of_types(model1, call.ifc_type_list)
                            \cup ids_of_types(model2, call.ifc_type_list)

(***************************************************************************)
(* C3.  The shared id list of a type filter is in ascending order without  *)
(* a duplicate, and it is the only list the call can return on these       *)
(* snapshots.                                                              *)
(***************************************************************************)
C3_SharedSorted ==
    call.op = "get_shared_element_guids" =>
        /\ \A i, j \in DOMAIN call.result : i < j => call.result[i] < call.result[j]
        /\ get_shared_element_guids(call.ifc_type, model1, model2) = {call.result}

\* A shared list of two ids is returned.
C3_Witness == call.op = "get_shared_element_guids" /\ Len(call.result) >= 2

(***************************************************************************)
(* C4.  ClassifyChangesForGivenGuidList, when it returns, lists an id of   *)
(* its input as Deleted iff it exists only in A, as Added iff it exists    *)
(* only in B, as Modified iff it exists in both and any() of its vector is *)
(* true, as Unmodified iff it exists in both and its vector is empty or    *)
(* all false; an id of neither snapshot is in no list, and no id is in two *)
(* lists.                                                                  *)
(***************************************************************************)
C4_ClassifiedStatuses ==
    (call.op = "ClassifyChangesForGivenGuidList" /\ call.result.ok) =>
        LET in_A(g) == g \in GUIDS /\ model1[g] # NoEntity
            in_B(g) == g \in GUIDS /\ model2[g] # NoEntity
            changed(g) == PyAny(checks_of(g, call.policy, model1, model2).val)
            added == Range(call.result.added)
            deleted == Range(call.result.deleted)
            modified == Range(call.result.modified)
            unmodified == Range(call.result.unmodified)
        IN  /\ \A g \in Range(call.guids) :
                  /\ g \in deleted <=> (in_A(g) /\ ~in_B(g))
                  /\ g \in added <=> (in_B(g) /\ ~in_A(g))
                  /\ g \in modified <=> (in_A(g) /\ in_B(g) /\ changed(g))
                  /\ g \in unmodified <=> (in_A(g) /\ in_B(g) /\ ~changed(g))
            /\ added \cup deleted \cup modified \cup unmodified \subseteq Range(call.guids)
            /\ \A g \in Range(call.guids) :
                  Cardinality({list \in {"a", "d", "m", "u"} :
                                  \/ list = "a" /\ g \in added
                                  \/ list = "d" /\ g \in deleted
                                  \/ list = "m" /\ g \in modified
                                  \/ list = "u" /\ g \in unmodified}) <= 1

\* A list with a modified id, an id of one snapshot only and an unknown id is classified.
C4_Witness ==
    /\ call.op = "ClassifyChangesForGivenGuidList"
    /\ call.result.ok
    /\ call.result.modified # <<>>
    /\ call.result.added \o call.result.deleted # <<>>

(***************************************************************************)
(* C5.  The vector of is_element_modified has one boolean per enabled      *)
(* check, in the order semantic, geometric, shape; with no check enabled   *)
(* it is empty.                                                            *)
(***************************************************************************)
C5_VectorOfEnabledChecks ==
    (call.op = "is_element_modified" /\ call.result.ok) =>
        LET policy == call.policy
            checks == call.result.val
            semantic == IF policy.check_semantic THEN 1 ELSE 0
            geometric == IF policy.geometry_check THEN 1 ELSE 0
            shape == IF policy.check_shape THEN 1 ELSE 0
            mesh1 == IF policy.geometry_check THEN MeshIn(model1, call.guid) ELSE None
            mesh2 == IF policy.geometry_check THEN MeshIn(model2, call.guid) ELSE None
        IN  /\ Len(checks) = semantic + geometric + shape
            /\ policy.check_semantic =>
                  checks[1] = ~graphs_equal(GraphOf(model1, call.guid), GraphOf(model2, call.guid))
            /\ policy.geometry_check =>
                  checks[semantic + 1] =
                      IF mesh1 # False /\ mesh2 # False THEN DescriptorsDiffer(call.guid)
                      ELSE mesh1 # mesh2
            /\ policy.check_shape =>
                  checks[semantic + geometric + 1] =
                      are_meshes_different(mesh1, mesh2, policy.use_trimesh_sampling,
                                           policy.sampling_count, policy.over_sampling,
                                           DefaultShapeTolerance).val

\* All three checks run and do not agree.
C5_Witness ==
    /\ call.op = "is_element_modified"
    /\ call.result.ok
    /\ Len(call.result.val) = 3
    /\ call.result.val[1] # call.result.val[3]

(***************************************************************************)
(* C6.  With all three checks disabled, whatever the differences:          *)
(* is_element_modified returns the empty vector,                           *)
(* find_unmodified_elements_guids returns all shared ids,                  *)
(* find_modified_elements_guids returns none, and                          *)
(* ClassifyChangesForGivenGuidList lists the shared ids as unmodified.     *)
(***************************************************************************)
C6_EntityEntryPoints ==
    /\ (call.op = "is_element_modified" /\ NoChecks(call.policy)) => call.result = Ok(<<>>)
    /\ (call.op = "find_unmodified_elements_guids" /\ NoChecks(call.policy)) =>
          /\ call.result.ok
          /\ Enumerates(call.result.val,
                        ids(model1, call.ifc_type) \cap ids(model2, call.ifc_type))
    /\ (call.op = "find_modified_elements_guids" /\ NoChecks(call.policy)) =>
          call.result = Ok(<<>>)
    /\ (call.op = "ClassifyChangesForGivenGuidList" /\ NoChecks(call.policy) /\ call.result.ok) =>
          /\ call.result.modified = <<>>
          /\ Range(call.result.unmodified) = Range(call.guids) \cap SharedIds

\* C6, as the program has it: the entry points above give every shared
\* entity the status Unmodified, and GenerateReportOfChanges returns before
\* it classifies, with an empty modified and an empty unmodified list.
C6_AllChecksDisabled ==
    /\ C6_EntityEntryPoints
    /\ (call.op = "GenerateReportOfChanges" /\ NoChecks(call.policy)) =>
          /\ call.result.ok
          /\ call.result.modified = <<>>
          /\ call.result.unmodified = <<>>

\* C6, as stated: with all three checks disabled every entry point gives
\* every shared entity the status Unmodified, and the report of
\* GenerateReportOfChanges lists every shared id as unmodified.
C6_AsStated ==
    /\ C6_EntityEntryPoints
    /\ (call.op = "GenerateReportOfChanges" /\ NoChecks(call.policy)) =>
          /\ call.result.ok
          /\ call.result.modified = <<>>
          /\ Range(call.result.unmodified)
                 = ids_of_types(model1, call.ifc_type_list)
                       \cap ids_of_types(model2, call.ifc_type_list)

\* The report runs with all checks disabled on snapshots that share an
\* entity whose two revisions differ.
C6_Witness ==
    /\ call.op = "GenerateReportOfChanges"
    /\ NoChecks(call.policy)
    /\ \E g \in ids_of_types(model1, call.ifc_type_list)
                   \cap ids_of_types(model2, call.ifc_type_list) : model1[g] # model2[g]

(***************************************************************************)
(* C7.  Comparing an entity with itself (its revision in B is its revision *)
(* in A), for every combination of checks and either sampling strategy:    *)
(* every boolean of the vector is false, the change list is empty, and the *)
(* Hausdorff distance is 0 when the entity has geometry and absent when it *)
(* has none.                                                               *)
(***************************************************************************)
C7_SelfComparison ==
    LET self == model1[call.guid] # NoEntity /\ model1[call.guid] = model2[call.guid]
        sampled == call.policy.check_shape => call.policy.sampling_count > 0
    IN  /\ (call.op = "is_element_modified" /\ self /\ sampled) =>
              /\ call.result.ok
              /\ ~PyAny(call.result.val)
        /\ (call.op = "analyze_element_changes" /\ self /\ sampled) =>
              call.result = Ok(<<>>)
        /\ (call.op = "are_meshes_different" /\ self /\ call.sampler.sampling_count > 0) =>
              call.distance = IF Truthy(call.mesh1) THEN Ok(Num(0)) ELSE Ok(None)

(***************************************************************************)
(* C8.  With the semantic check enabled on a non-proxy entity whose graphs *)
(* differ, analyze_element_changes emits one 'Added' item per node key     *)
(* only in graph B, one 'Deleted' item per node key only in graph A, and   *)
(* one field-level diff item per shared node key whose attribute mappings  *)
(* differ, and no other semantic item.                                     *)
(***************************************************************************)
C8_SemanticItems ==
    (/\ call.op = "analyze_element_changes"
     /\ call.policy.check_semantic
     /\ NonProxy(call.guid)
     /\ call.result.ok
     /\ ~graphs_equal(GraphOf(model1, call.guid), GraphOf(model2, call.guid))) =>
        LET items == call.result.val
            nodes_A == GraphOf(model1, call.guid).nodes
            nodes_B == GraphOf(model2, call.guid).nodes
            changed == {k \in DOMAIN nodes_A \cap DOMAIN nodes_B : nodes_A[k] # nodes_B[k]}
        IN  /\ CountOf(items, "Added") = Cardinality(DOMAIN nodes_B \ DOMAIN nodes_A)
            /\ \A k \in DOMAIN nodes_B \ DOMAIN nodes_A :
                  \E i \in DOMAIN items : items[i] = AddedItem(nodes_B[k])
            /\ CountOf(items, "Deleted") = Cardinality(DOMAIN nodes_A \ DOMAIN nodes_B)
            /\ \A k \in DOMAIN nodes_A \ DOMAIN nodes_B :
                  \E i \in DOMAIN items : items[i] = DeletedItem(nodes_A[k])
            /\ CountOf(items, "NodeDiff") = Cardinality(changed)
            /\ \A k \in changed :
                  \E i \in DOMAIN items :
                      items[i] = NodeDiffItem(k, DictDiff(nodes_A[k], nodes_B[k]))

\* The two graphs differ in one attribute value of one node: one field-level
\* item of one changed field, no Added and no Deleted item.
C8_Witness ==
    /\ call.op = "analyze_element_changes"
    /\ call.policy.check_semantic
    /\ call.result.ok
    /\ CountOf(call.result.val, "NodeDiff") = 1
    /\ CountOf(call.result.val, "Added") = 0
    /\ CountOf(call.result.val, "Deleted") = 0
    /\ \E i \in DOMAIN call.result.val :
          /\ call.result.val[i].item = "NodeDiff"
          /\ Cardinality(call.result.val[i].diff) = 1

(***************************************************************************)
(* C9.  For a shared non-proxy entity with identical semantic graphs and   *)
(* both meshes present, with only the geometric check enabled: if the      *)
(* rounded descriptors differ, the vector is [true], the entity is listed  *)
(* as modified and the change list is exactly one geometric diff item; if  *)
(* they are equal, the vector is [false] and the change list is empty.     *)
(***************************************************************************)
C9_GeometricOnly ==
    LET only_geometric ==
            ~call.policy.check_semantic /\ call.policy.geometry_check /\ ~call.policy.check_shape
        case(guid) ==
            /\ NonProxy(guid)
            /\ graphs_equal(GraphOf(model1, guid), GraphOf(model2, guid))
            /\ MeshIn(model1, guid) # False
            /\ MeshIn(model2, guid) # False
    IN  /\ (call.op = "is_element_modified" /\ only_geometric /\ case(call.guid)) =>
              call.result = Ok(<<DescriptorsDiffer(call.guid)>>)
        /\ (call.op = "analyze_element_changes" /\ only_geometric /\ case(call.guid)) =>
              call.result =
                  IF DescriptorsDiffer(call.guid)
                  THEN Ok(<<GeometryDiffItem(
                               DictDiff(extract_geometric_properties(MeshIn(model1, call.guid)),
                                        extract_geometric_properties(MeshIn(model2, call.guid))))>>)
                  ELSE Ok(<<>>)
        /\ (call.op = "find_modified_elements_guids" /\ only_geometric /\ call.result.ok) =>
              \A guid \in ids(model1, call.ifc_type) \cap ids(model2, call.ifc_type) :
                  case(guid) => (guid \in Range(call.result.val) <=> DescriptorsDiffer(guid))

\* The two meshes of the entity differ but their rounded descriptors do
\* not: the vector is [false].
C9_Witness ==
    /\ call.op = "is_element_modified"
    /\ ~call.policy.check_semantic /\ call.policy.geometry_check /\ ~call.policy.check_shape
    /\ MeshIn(model1, call.guid) # False
    /\ MeshIn(model2, call.guid) # False
    /\ MeshIn(model1, call.guid) # MeshIn(model2, call.guid)
    /\ call.result = Ok(<<FALSE>>)

(***************************************************************************)
(* C10.  are_meshes_different returns true iff the Hausdorff distance is   *)
(* not absent and strictly greater than the tolerance: for a distance d it *)
(* is true for every tolerance below d and false for every tolerance from  *)
(* d on.                                                                   *)
(***************************************************************************)
C10_StrictlyGreater ==
    (call.op = "are_meshes_different" /\ call.distance.ok) =>
        /\ call.result = Ok(call.distance.val # None /\ call.distance.val.num > call.tolerance)
        /\ call.distance.val # None =>
              \A tolerance \in Tolerances \cup {call.distance.val.num, call.distance.val.num + 1} :
                  are_meshes_different(call.mesh1, call.mesh2, call.sampler.use_trimesh_sampling,
                                       call.sampler.sampling_count, OverSampling, tolerance)
                      = Ok(tolerance < call.distance.val.num)

\* The distance equals a positive tolerance, and the meshes are reported as
\* not different.
C10_Witness ==
    /\ call.op = "are_meshes_different"
    /\ call.tolerance > 0
    /\ call.distance = Ok(Num(call.tolerance))
    /\ call.result = Ok(FALSE)


(***************************************************************************)
(* C11.  hausdorff_distance_between_meshes returns absent, without         *)
(* sampling or failing, whenever a mesh argument is the no-geometry        *)
(* sentinel or was never generated (None), and are_meshes_different then   *)
(* returns false.                                                          *)
(***************************************************************************)
C11_AbsentWithoutGeometry ==
    (/\ call.op = "are_meshes_different"
     /\ \/ call.mesh1 \in {False, None}
        \/ call.mesh2 \in {False, None}) =>
        /\ call.distance = Ok(None)
        /\ call.result = Ok(FALSE)

\* One mesh is the sentinel, the other is a mesh; the call asks for no
\* sample at all, which fails on two meshes.
C11_Witness ==
    /\ call.op = "are_meshes_different"
    /\ call.mesh1 \in Meshes
    /\ call.mesh2 = False
    /\ call.sampler.sampling_count = 0
    /\ call.result = Ok(FALSE)

(***************************************************************************)
(* C12.  With the same sample count, oversampling factor and sampling      *)
(* strategy, the Hausdorff distance from A to B is the Hausdorff distance  *)
(* from B to A.                                                            *)
(***************************************************************************)
C12_Symmetric ==
    call.op = "are_meshes_different" =>
        hausdorff_distance_between_meshes(call.mesh2, call.mesh1, call.sampler.sampling_count,
                                          OverSampling, call.sampler.use_trimesh_sampling)
            = call.distance

SamplesOf(mesh, sampler) ==
    IF sampler.use_trimesh_sampling THEN sample_surface_even(mesh, sampler.sampling_count)
    ELSE sample_mesh_with_grid(mesh, sampler.sampling_count, OverSampling).val

\* d(X -> Y): the maximum over p in X of the minimum over q in Y of the
\* Euclidean distance between p and q.
Directed(X, Y) ==
    LET nearest(p) == CHOOSE d \in {Distance(p, q) : q \in Y} :
                          \A e \in {Distance(p, q) : q \in Y} : d <= e
    IN  CHOOSE d \in {nearest(p) : p \in X} : \A e \in {nearest(p) : p \in X} : d >= e

\* The two directed distances of the measured meshes differ, and the
\* measured distance is positive.
C12_Witness ==
    /\ call.op = "are_meshes_different"
    /\ Truthy(call.mesh1) /\ Truthy(call.mesh2)
    /\ call.distance.ok
    /\ call.distance.val.num > 0
    /\ Directed(Range(SamplesOf(call.mesh1, call.sampler)), Range(SamplesOf(call.mesh2, call.sampler)))
          # Directed(Range(SamplesOf(call.mesh2, call.sampler)), Range(SamplesOf(call.mesh1, call.sampler)))

(***************************************************************************)
(* C13.  For non-empty sampled point sets S_A and S_B the returned value   *)
(* is max(d(S_A -> S_B), d(S_B -> S_A)).                                   *)
(***************************************************************************)
C13_SymmetricHausdorff ==
    (/\ call.op = "are_meshes_different"
     /\ Truthy(call.mesh1) /\ Truthy(call.mesh2)
     /\ call.sampler.sampling_count > 0
     /\ SamplesOf(call.mesh1, call.sampler) # <<>>
     /\ SamplesOf(call.mesh2, call.sampler) # <<>>) =>
        LET S_A == Range(SamplesOf(call.mesh1, call.sampler))
            S_B == Range(SamplesOf(call.mesh2, call.sampler))
            forth == Directed(S_A, S_B)
            back == Directed(S_B, S_A)
        IN  call.distance = Ok(Num(IF forth >= back THEN forth ELSE back))

\* The larger directed distance is the one from B to A, and a point of B
\* has a closest point of A that is not the first one.
C13_Witness ==
    /\ call.op = "are_meshes_different"
    /\ Truthy(call.mesh1) /\ Truthy(call.mesh2)
    /\ call.distance.ok
    /\ LET S_A == SamplesOf(call.mesh1, call.sampler)
           S_B == SamplesOf(call.mesh2, call.sampler)
       IN  /\ S_A # <<>> /\ S_B # <<>>
           /\ Directed(Range(S_B), Range(S_A)) > Directed(Range(S_A), Range(S_B))
           /\ \E i \in DOMAIN S_B : Distance(S_B[i], S_A[1]) > Directed({S_B[i]}, Range(S_A))



\* A movement test of an entity both snapshots hold, with a mesh in each.
MoveCase ==
    /\ call.op = "check_if_element_moved"
    /\ call.guid \in SharedIds
    /\ Truthy(MeshIn(model1, call.guid))
    /\ Truthy(MeshIn(model2, call.guid))

\* How far a corner of the bounding box moved (1 the min corner, 2 the max corner).
CornerMove(guid, corner) ==
    [i \in 1..3 |-> MeshIn(model2, guid).bounds[corner][i] - MeshIn(model1, guid).bounds[corner][i]]

SquaredLength(v) == v[1] * v[1] + v[2] * v[2] + v[3] * v[3]

\* |v| > bound; a component beyond the bound settles it.
LongerThan(v, bound) ==
    \/ \E i \in 1..3 : Abs(v[i]) > bound
    \/ SquaredLength(v) > bound * bound

\* C14: when both entities exist and both have a mesh, the movement test
\* returns true exactly when the min corner and the max corner moved by
\* approximately the same vector and the mean of the two vectors is strictly
\* longer than the tolerance; it returns false otherwise.
C14_MovedByCommonTranslation ==
    MoveCase =>
        LET t_min == CornerMove(call.guid, 1)
            t_max == CornerMove(call.guid, 2)
        IN  call.result =
                Ok(/\ allclose(t_min, t_max)
                   /\ LongerThan([i \in 1..3 |-> t_min[i] + t_max[i]], 2 * call.tolerance))

\* A translation of exactly DefaultShapeTolerance tested against a smaller
\* tolerance is a movement.
C14_Witness ==
    /\ MoveCase
    /\ CornerMove(call.guid, 1) = <<DefaultShapeTolerance, 0, 0>>
    /\ call.tolerance < DefaultShapeTolerance
    /\ call.result = Ok(TRUE)

\* C15: the movement test of an entity both snapshots hold returns false,
\* without failing, whenever mesh generation yields the no-geometry sentinel
\* for the entity in snapshot A or in snapshot B.
C15_MissingMeshIsNotMoved ==
    (/\ call.op = "check_if_element_moved"
     /\ call.guid \in SharedIds
     /\ \/ MeshIn(model1, call.guid) = False
        \/ MeshIn(model2, call.guid) = False) =>
        call.result = Ok(FALSE)

\* C18: the existence test never fails: it returns a boolean for every id,
\* well-formed or malformed, and the boolean is true exactly when the
\* lookup returned an entity; an error of the collaborator gives false.
C18_ExistenceNeverFails ==
    call.op = "guid_exists" =>
        /\ call.result.ok
        /\ call.result.val \in BOOLEAN
        /\ call.result.val <=> (call.found.ok /\ call.found.val # NoEntity)
        /\ call.result.val <=>
               exists(IF call.version = 1 THEN model1 ELSE model2, call.guid)

\* The lookup of a malformed id raised, and the existence test returned false.
C18_Witness ==
    /\ call.op = "guid_exists"
    /\ call.guid = MalformedGuid
    /\ ~call.found.ok
    /\ call.result = Ok(FALSE)


\* The snapshot a call names by its version number.
Snapshot(version) == IF version = 1 THEN model1 ELSE model2

\* The containment chain above a container name, nearest container first.
RECURSIVE ChainAbove(_)
ChainAbove(name) ==
    IF name = "" THEN <<>>
    ELSE <<SpatialElement(name)>> \o ChainAbove(SpatialElement(name).Container)

\* The positions of the building storeys in a chain.
StoreysOf(chain) == {i \in DOMAIN chain : chain[i].IfcType = "IfcBuildingStorey"}

\* A name trimmed and case-folded.
Normalised(chars) == lower(strip(chars))

\* onLevel(id, snapshot, levelName): true or false by the first storey of the
\* chain, None when the entity is absent or no storey is above it.
onLevel(guid, model, floor) ==
    IF ~exists(model, guid) THEN None
    ELSE LET chain == ChainAbove(model[guid].Container)
         IN  IF StoreysOf(chain) = {} THEN None
             ELSE LET first == CHOOSE i \in StoreysOf(chain) : \A j \in StoreysOf(chain) : i <= j
                  IN  Bool(Normalised(Chars(chain[first].Name)) = Normalised(floor))

\* C16: is_element_on_storey decides on the first building storey of the
\* containment chain above the entity: true iff its name equals the floor
\* name after trimming and case-folding both, false if they differ, and
\* None if the entity is absent or the chain reaches no storey.
C16_FirstStoreyDecides ==
    call.op = "is_element_on_storey" =>
        call.result = Ok(onLevel(call.guid, Snapshot(call.version), call.floor))


\* The ids one resolver operation yields for a list of types: the union of
\* its per-type results.
AddedIds(ifc_type_list) ==
    UNION {ids(model2, ifc_type_list[i]) \ ids(model1, ifc_type_list[i]) : i \in DOMAIN ifc_type_list}

DeletedIds(ifc_type_list) ==
    UNION {ids(model1, ifc_type_list[i]) \ ids(model2, ifc_type_list[i]) : i \in DOMAIN ifc_type_list}

SharedIdsOf(ifc_type_list) ==
    UNION {ids(model1, ifc_type_list[i]) \cap ids(model2, ifc_type_list[i]) : i \in DOMAIN ifc_type_list}

OnLevelIn(S, model, floor) == {g \in S : onLevel(g, model, floor) = Bool(TRUE)}

C19_EmptyGraphForMissing ==
    (/\ call.op = "create_element_graph"
     /\ ~exists(Snapshot(call.version), call.guid)) =>
        /\ call.result = Ok(EmptyGraph)
        /\ exists(Snapshot(3 - call.version), call.guid) =>
               ~graphs_equal(EmptyGraph, GraphOf(Snapshot(3 - call.version), call.guid))

\* A change list asked for an entity of the proxy type.
ProxyCase ==
    /\ call.op = "analyze_element_changes"
    /\ "IfcBuildingElementProxy" \in Supertypes(model1[call.guid].IfcType)

\* C20: for an entity of the generic proxy type, analyze_element_changes
\* returns the empty change list, whatever checks are enabled and whatever
\* the entity's semantic, geometric or shape differences.
C20_ProxyHasNoChanges ==
    ProxyCase => call.result = Ok(<<>>)

\* A proxy whose properties, descriptor and shape all changed, analysed with
\* every check enabled.
C20_Witness ==
    /\ ProxyCase
    /\ call.policy.check_semantic /\ call.policy.geometry_check /\ call.policy.check_shape
    /\ call.policy.sampling_count > 0
    /\ ~graphs_equal(GraphOf(model1, call.guid), GraphOf(model2, call.guid))
    /\ DescriptorsDiffer(call.guid)
    /\ call.result = Ok(<<>>)


\* A report call with a check enabled whose analysis of the shared entities
\* cannot fail: the classification is computed before the first write.
ClassificationComputed ==
    /\ call.op = "GenerateReportOfChanges"
    /\ ~NoChecks(call.policy)
    /\ \A g \in SharedIdsOf(call.ifc_type_list) :
          Raise \notin analyze_element_changes(g, call.policy, model1, model2)

\* C21: in GenerateReportOfChanges a failure of a report write (CSV, JSON or
\* text) after the classification has been computed does not discard it: the
\* four lists are still returned.
C21_WritesDoNotDiscard ==
    ClassificationComputed => call.result.ok


\* A comparison of two meshes that are present, of which one at least gives
\* the sampler no point (no surface area, or a sampling count of 0).
UnmeasurableCase ==
    /\ call.op = "are_meshes_different"
    /\ Truthy(call.mesh1) /\ Truthy(call.mesh2)
    /\ \/ SamplesOf(call.mesh1, call.sampler) = <<>>
       \/ SamplesOf(call.mesh2, call.sampler) = <<>>

\* C22: the Hausdorff distance of two present meshes of which one samples to
\* the empty point set is absent, not a failure, and are_meshes_different
\* returns false.
C22_UnmeasurableIsAbsent ==
    UnmeasurableCase =>
        /\ call.distance = Ok(None)
        /\ call.result = Ok(FALSE)


\* A modification test with the geometric check enabled, of an entity for
\* which mesh generation gives the sentinel in a snapshot at least.
SentinelCase ==
    /\ call.op = "is_element_modified"
    /\ call.policy.geometry_check
    /\ \/ MeshIn(model1, call.guid) = False
       \/ MeshIn(model2, call.guid) = False

\* The position of the geometric boolean in the vector.
GeometricIndex(policy) == IF policy.check_semantic THEN 2 ELSE 1

\* C23: in is_element_modified with the geometric check enabled, when mesh
\* generation gives the no-geometry sentinel in a snapshot at least, the
\* call does not fail and the geometric boolean compares presence only: true
\* iff exactly one of the two meshes is the sentinel, false when both are.
C23_PresenceOnly ==
    SentinelCase =>
        /\ call.result.ok
        /\ call.result.val[GeometricIndex(call.policy)] =
               ((MeshIn(model1, call.guid) = False) # (MeshIn(model2, call.guid) = False))

\* The entity has a mesh in A and none in B, every check is enabled, and the
\* geometric boolean is true.
C23_Witness ==
    /\ SentinelCase
    /\ call.policy.check_semantic /\ call.policy.check_shape
    /\ MeshIn(model1, call.guid) # False
    /\ call.result.ok
    /\ call.result.val[2]


\* The Hausdorff distance between the entity's mesh in A and its mesh in B,
\* with the sampling arguments of a policy.
ShapeDistance(guid, policy) ==
    hausdorff_distance_between_meshes(MeshIn(model1, guid), MeshIn(model2, guid),
                                      policy.sampling_count, policy.over_sampling,
                                      policy.use_trimesh_sampling)

\* A modification test with the shape check enabled, of an entity whose
\* shape distance is a number or absent.
ShapeCase ==
    /\ call.op = "is_element_modified"
    /\ call.policy.check_shape
    /\ ShapeDistance(call.guid, call.policy).ok

\* C24: in is_element_modified with the shape check enabled, the shape
\* boolean (the last of the vector) is true iff the Hausdorff distance
\* between the entity's mesh in A and its mesh in B is measurable and exceeds
\* the shape tolerance, whether or not the geometric check is enabled.
C24_ShapeBoolean ==
    ShapeCase =>
        LET distance == ShapeDistance(call.guid, call.policy).val
        IN  /\ call.result.ok
            /\ call.result.val[Len(call.result.val)] =
                   (distance # None /\ distance.num > DefaultShapeTolerance)


\* any() of the vector of is_element_modified for a shared id.
VectorSaysModified(guid, policy) ==
    \E checks \in {checks_of(guid, policy, model1, model2)} : checks.ok /\ PyAny(checks.val)

\* C25: the two paths agree on every shared entity that is not a proxy:
\* analyze_element_changes returns a non-empty list iff any() of the vector
\* of is_element_modified is true, and the modified list of
\* GenerateReportOfChanges holds the non-proxy shared ids whose vector has a
\* true boolean.
C25_PathsAgree ==
    /\ (call.op = "analyze_element_changes" /\ NonProxy(call.guid)) =>
          /\ call.result.ok
          /\ (call.result.val # <<>>) = VectorSaysModified(call.guid, call.policy)
    /\ (call.op = "GenerateReportOfChanges" /\ ~NoChecks(call.policy) /\ call.result.ok) =>
          Range(call.result.modified) =
              {g \in SharedIdsOf(call.ifc_type_list) :
                  NonProxy(g) /\ VectorSaysModified(g, call.policy)}


\* The place of an item of the change list in the check order.
RankOf(change) ==
    CASE change.item = "Added" -> 1
      [] change.item = "Deleted" -> 2
      [] change.item = "NodeDiff" -> 3
      [] change.item = "GeometryDiff" -> 4
      [] change.item = "Shape OR Position Change" -> 5

\* C26: the change list of analyze_element_changes is in check order: the
\* Added items, the Deleted items and the field-level node diffs, then the
\* geometric diff item, then the shape item; it holds at most one geometric
\* item and one shape item, and items of enabled checks only.
C26_CheckOrder ==
    (call.op = "analyze_element_changes" /\ call.result.ok) =>
        LET items == call.result.val
        IN  /\ \A i, j \in DOMAIN items : i < j => RankOf(items[i]) <= RankOf(items[j])
            /\ CountOf(items, "GeometryDiff") <= 1
            /\ CountOf(items, "Shape OR Position Change") <= 1
            /\ ~call.policy.check_semantic =>
                  \A i \in DOMAIN items : RankOf(items[i]) > 3
            /\ ~call.policy.geometry_check => CountOf(items, "GeometryDiff") = 0
            /\ ~call.policy.check_shape => CountOf(items, "Shape OR Position Change") = 0

\* A change list with Added, Deleted and field-level items followed by the
\* geometric item.
C26_Witness ==
    /\ call.op = "analyze_element_changes"
    /\ call.result.ok
    /\ CountOf(call.result.val, "Added") > 0
    /\ CountOf(call.result.val, "Deleted") > 0
    /\ CountOf(call.result.val, "NodeDiff") > 0
    /\ call.result.val[Len(call.result.val)].item = "GeometryDiff"


Reversed(s) == [i \in DOMAIN s |-> s[Len(s) + 1 - i]]

\* The entity as a snapshot may enumerate it otherwise: its property
\* definitions in any order, and the items of each in the opposite order.
Reorderings(entity) ==
    {[entity EXCEPT !.IsDefinedBy = [i \in DOMAIN defs |-> [defs[i] EXCEPT !.items = Reversed(@)]]] :
        defs \in ListsOf(Range(entity.IsDefinedBy))}
    \cup {[entity EXCEPT !.IsDefinedBy = defs] : defs \in ListsOf(Range(entity.IsDefinedBy))}

\* A modification test with the semantic check enabled.
SemanticCase ==
    /\ call.op = "is_element_modified"
    /\ call.policy.check_semantic
    /\ call.result.ok

\* C27: the semantic check reports unchanged iff the two graphs have the
\* same node keys, the same attribute mapping under every key and the same
\* edges; the graph of an entity does not depend on the order in which its
\* definitions and their items are enumerated; every edge goes from the
\* entity's node to another node; the same attributes under another node
\* key are a difference.
C27_GraphEquality ==
    SemanticCase =>
        LET graph_A == GraphOf(model1, call.guid)
            graph_B == GraphOf(model2, call.guid)
            keys_A == DOMAIN graph_A.nodes
            keys_B == DOMAIN graph_B.nodes
        IN  /\ ~call.result.val[1] <=>
                  /\ keys_A = keys_B
                  /\ \A k \in keys_A \cap keys_B : graph_A.nodes[k] = graph_B.nodes[k]
                  /\ graph_A.edges = graph_B.edges
            /\ \A entity \in Reorderings(model2[call.guid]) :
                  GraphOf([model2 EXCEPT ![call.guid] = entity], call.guid) = graph_B
            /\ \A edge \in graph_A.edges \cup graph_B.edges :
                  /\ edge[1] = call.guid
                  /\ edge[2] # call.guid
                  /\ edge[2] \in keys_A \cup keys_B
            /\ (\E k \in keys_A \ keys_B : \E r \in keys_B \ keys_A :
                    graph_A.nodes[k] = graph_B.nodes[r]) => call.result.val[1]

\* Snapshot B enumerates the definitions of the entity in another order than
\* snapshot A, and the semantic check reports unchanged.
C27_Witness ==
    /\ SemanticCase
    /\ Len(model1[call.guid].IsDefinedBy) > 1
    /\ model1[call.guid].IsDefinedBy[1].GlobalId # model2[call.guid].IsDefinedBy[1].GlobalId
    /\ ~call.result.val[1]


\* C28: check_if_element_moved reports not moved whenever a coordinate of
\* the min-corner translation and of the max-corner translation differ by
\* more than the absolute tolerance 1e-4, whatever the size of the
\* translation.
C28_AbsoluteTolerance ==
    (/\ MoveCase
     /\ \E i \in 1..3 :
           Abs(CornerMove(call.guid, 1)[i] - CornerMove(call.guid, 2)[i]) > MoveAtol) =>
        call.result = Ok(FALSE)


\* The id list yields at least one data row in the snapshot.
HasRows(guids, model) ==
    \E data \in {extract_element_data(guids, model)} : data.ok /\ data.val # <<>>

\* C29: Write_Added_Deleted_Modified_To_CSV writes each of the three CSV
\* reports under its own flag only: a call that completes has written
\* Added_Elements.csv iff write_added and the added list yields a row,
\* Deleted_Elements.csv iff write_deleted and the deleted list yields a row,
\* Modified_Elements.csv iff write_modified and the modified list yields a
\* row, whatever the value of write_deleted.
C29_OwnFlagOnly ==
    (call.op = "Write_Added_Deleted_Modified_To_CSV" /\ call.result.ok) =>
        /\ "Added_Elements.csv" \in call.result.files
               <=> (call.write_added /\ HasRows(call.AddedGuids, model2))
        /\ "Deleted_Elements.csv" \in call.result.files
               <=> (call.write_deleted /\ HasRows(call.DeletedGuids, model1))
        /\ "Modified_Elements.csv" \in call.result.files
               <=> (call.write_modified /\ HasRows(call.ModifiedGuids, model2))


\* The two lists are disjoint and enumerate the set between them, each
\* member once.
Splits(list1, list2, S) ==
    /\ Range(list1) \cap Range(list2) = {}
    /\ Enumerates(list1 \o list2, S)

\* C30: for the same snapshots, type filter and policy, the results of
\* find_modified_elements_guids and find_unmodified_elements_guids are
\* disjoint and their union is the shared id set of the type; and with a
\* check enabled the modified and unmodified lists of
\* GenerateReportOfChanges hold every shared id exactly once between them.
C30_ModifiedUnmodifiedSplit ==
    /\ (call.op = "find_modified_elements_guids" /\ call.result.ok) =>
          \A unmodified \in find_unmodified_elements_guids(call.ifc_type, call.policy, model1, model2) :
              /\ unmodified.ok
              /\ Splits(call.result.val, unmodified.val,
                        ids(model1, call.ifc_type) \cap ids(model2, call.ifc_type))
    /\ (call.op = "find_unmodified_elements_guids" /\ call.result.ok) =>
          \A modified \in find_modified_elements_guids(call.ifc_type, call.policy, model1, model2) :
              /\ modified.ok
              /\ Splits(modified.val, call.result.val,
                        ids(model1, call.ifc_type) \cap ids(model2, call.ifc_type))
    /\ (call.op = "GenerateReportOfChanges" /\ ~NoChecks(call.policy) /\ call.result.ok) =>
          Splits(call.result.modified, call.result.unmodified, SharedIdsOf(call.ifc_type_list))

\* Of two shared entities of the type, find_modified_elements_guids lists
\* one, and the other is unmodified.
C30_Witness ==
    /\ call.op = "find_modified_elements_guids"
    /\ call.result.ok
    /\ Len(call.result.val) = 1
    /\ Cardinality(ids(model1, call.ifc_type) \cap ids(model2, call.ifc_type)) = 2
    /\ call.policy.geometry_check

====
